---- MODULE Spec2Model ----
(***************************************************************************)
(* Governance break-test simulation: agents (src/agents.py), the voting    *)
(* system, the slashing engine and the simulation engine                   *)
(* (src/simulation.py), the mechanism generator (src/generator.py) and the *)
(* parallel pipeline (src/pipeline.py).                                    *)
(*                                                                         *)
(* Numbers.  Python floats are modelled in fixed point:                    *)
(*   - fractions of 1 (proposal quality, thresholds, rates, probabilities, *)
(*     random.random() draws) are integers in thousandths (Unit);          *)
(*   - stakes and voting powers are integers in hundredths (Scale).        *)
(* Every arithmetic step is carried out in the order of the source and     *)
(* rounded down after each multiplication or division.                     *)
(*                                                                         *)
(* Where a property turns on the rounding of a float sum (the tally of a   *)
(* round, amount_slashed + penalty) the same operations are carried out in *)
(* binary floating point of FloatBits significant bits, rounding to the    *)
(* nearest float: TallySpec and SlashSpec.                                 *)
(***************************************************************************)
EXTENDS Integers, Sequences, FiniteSets, TLC

\* 1.0 for fractions: quality, thresholds, rates, probabilities
Unit == 1000
\* 1.0 for stakes and voting powers
Scale == 100

Max(a, b) == IF a >= b THEN a ELSE b

RECURSIVE SqrtSearch(_, _, _)
SqrtSearch(n, lo, hi) ==
    IF lo >= hi THEN lo
    ELSE LET mid == (lo + hi + 1) \div 2
         IN  IF mid * mid <= n THEN SqrtSearch(n, mid, hi)
                               ELSE SqrtSearch(n, lo, mid - 1)

\* math.sqrt on a Scale-scaled value: floor(sqrt(p / Scale) * Scale)
Sqrt(p) == SqrtSearch(p * Scale, 0, 2000)

RECURSIVE SumSeq(_)
SumSeq(s) == IF s = << >> THEN 0 ELSE Head(s) + SumSeq(Tail(s))

(***************************************************************************)
(* Sampled input values                                                    *)
(***************************************************************************)
\* largest roster handed to conduct_vote directly
MaxAgents == 2
\* number of direct calls (conduct_vote, Agent.apply_slashing) in one behaviour
MaxCalls == 2

\* values random.random() returns, in [0, 1)
Draws == {0, 500, 999}

\* proposal qualities
Qualities == {100, 300, 400, 450, 500, 600, 900}

NoThreshold == 0 - 1

AgentTypes == {"honest", "collusion", "whale", "sybil", "emotional_bias", "systematic_bias"}

(***************************************************************************)
(* Agent (src/agents.py)                                                   *)
(***************************************************************************)
\* Agent(...) followed by __post_init__
Agent(id, type, stake, x) ==
    [agent_id |-> id, agent_type |-> type, stake |-> stake,
     original_stake |-> stake, amount_slashed |-> 0, honesty_threshold |-> x]

get_effective_stake(a) == Max(0, a.stake - a.amount_slashed)

\* variant: the clamp to stake is missing
Agent_apply_slashing_unclamped(a, slash_amount) ==
    [a EXCEPT !.amount_slashed = a.amount_slashed + slash_amount]

\* variant: the amount is assigned instead of accumulated
Agent_apply_slashing_overwrite(a, slash_amount) ==
    [a EXCEPT !.amount_slashed = IF slash_amount > a.stake THEN a.stake ELSE slash_amount]

Agent_apply_slashing(a, slash_amount) ==
    LET s == a.amount_slashed + slash_amount
    IN  [a EXCEPT !.amount_slashed = IF s > a.stake THEN a.stake ELSE s]

\* random.random() < num / den, for den > 0
Below(u, num, den) == u * den < num * Unit

honest_vote(a, quality, u) ==
    LET x == a.honesty_threshold
    IN  IF quality > x THEN TRUE
        ELSE IF 400 < quality /\ quality < x THEN Below(u, quality, x)
        ELSE IF quality < 400 THEN Below(u, Max(0, quality - 200), x + 500)
        ELSE IF quality = 400 THEN Below(u, Max(0, quality - 200), x + 500)
        ELSE TRUE

\* variant: the fuzzy bands reach to 0.35 and 0.65 themselves
collusion_vote_closed_bands(a, quality, u) ==
    LET correct_vote == quality >= 500
    IN  IF 400 < quality /\ quality < 600 THEN ~correct_vote
        ELSE IF (350 <= quality /\ quality <= 400) \/ (600 <= quality /\ quality <= 650)
             THEN IF u < 500 THEN ~correct_vote ELSE correct_vote
        ELSE correct_vote

collusion_vote(a, quality, u) ==
    LET correct_vote == quality >= 500
    IN  IF 400 < quality /\ quality < 600 THEN ~correct_vote
        ELSE IF (350 < quality /\ quality <= 400) \/ (600 <= quality /\ quality < 650)
             THEN IF u < 500 THEN ~correct_vote ELSE correct_vote
        ELSE correct_vote

whale_vote(a, quality, u) == collusion_vote(a, quality, u)

sybil_vote(a, quality, u) ==
    LET correct_vote == quality >= 500
    IN  IF 400 < quality /\ quality < 600 THEN ~correct_vote ELSE correct_vote

emotional_bias_vote(a, quality, u) ==
    LET correct_vote == quality >= 500
    IN  IF u < 500 THEN ~correct_vote ELSE correct_vote

\* variant: a proposal of quality 0.5 exactly is taken for a bad one
systematic_bias_vote_boundary(a, quality, u) ==
    LET correct_vote == quality > 500
    IN  ~correct_vote

systematic_bias_vote(a, quality, u) ==
    LET correct_vote == quality >= 500
    IN  ~correct_vote

vote_on_proposal(a, quality, u) ==
    CASE a.agent_type = "honest" -> honest_vote(a, quality, u)
      [] a.agent_type = "collusion" -> collusion_vote(a, quality, u)
      [] a.agent_type = "whale" -> whale_vote(a, quality, u)
      [] a.agent_type = "sybil" -> sybil_vote(a, quality, u)
      [] a.agent_type = "emotional_bias" -> emotional_bias_vote(a, quality, u)
      [] a.agent_type = "systematic_bias" -> systematic_bias_vote(a, quality, u)

(***************************************************************************)
(* Proposal, VotingSystem (src/simulation.py)                              *)
(***************************************************************************)
Proposal(id, quality) == [proposal_id |-> id, quality |-> quality]

is_objectively_good(proposal) == proposal.quality >= 500

\* variant: simple_majority lets the stake through
calculate_voting_power_stake_majority(m, a) ==
    LET effective_stake == get_effective_stake(a)
        base_power ==
            CASE m.stake_method = "equal_weight" -> Scale
              [] m.stake_method = "token_based" -> effective_stake
              [] m.stake_method = "reputation_based" -> effective_stake
              [] m.stake_method = "hybrid" -> (effective_stake + Scale) \div 2
    IN  CASE m.voting_method = "simple_majority" -> base_power
          [] m.voting_method = "weighted" -> base_power
          [] m.voting_method = "quadratic" -> Sqrt(base_power)

calculate_voting_power(m, a) ==
    LET effective_stake == get_effective_stake(a)
        base_power ==
            CASE m.stake_method = "equal_weight" -> Scale
              [] m.stake_method = "token_based" -> effective_stake
              [] m.stake_method = "reputation_based" -> effective_stake
              [] m.stake_method = "hybrid" -> (effective_stake + Scale) \div 2
    IN  CASE m.voting_method = "simple_majority" -> Scale
          [] m.voting_method = "weighted" -> base_power
          [] m.voting_method = "quadratic" -> Sqrt(base_power)

\* variant: the comparison with the draw is reversed
apply_sybil_resistance_flipped(m, a, voting_power, u) ==
    IF a.agent_type = "sybil" /\ u > m.sybil_resistance THEN 0 ELSE voting_power

apply_sybil_resistance(m, a, voting_power, u) ==
    IF a.agent_type = "sybil" /\ u < m.sybil_resistance THEN 0 ELSE voting_power

\* variant: max_voting_power is taken as a power, not as a share of the total
apply_max_voting_power_cap_absolute(m, voting_powers) ==
    LET total_power == SumSeq(voting_powers)
        max_allowed_power == (Scale * m.max_voting_power) \div Unit
    IN  IF total_power = 0 THEN voting_powers
        ELSE [i \in DOMAIN voting_powers |->
                 IF voting_powers[i] > max_allowed_power
                 THEN max_allowed_power ELSE voting_powers[i]]

\* variant: powers below the cap are raised to it
apply_max_voting_power_cap_raise(m, voting_powers) ==
    LET total_power == SumSeq(voting_powers)
        max_allowed_power == (total_power * m.max_voting_power) \div Unit
    IN  IF total_power = 0 THEN voting_powers
        ELSE [i \in DOMAIN voting_powers |->
                 IF voting_powers[i] < max_allowed_power
                 THEN max_allowed_power ELSE voting_powers[i]]

\* voting_powers: sequence of powers, one per agent, in roster order
apply_max_voting_power_cap(m, voting_powers) ==
    LET total_power == SumSeq(voting_powers)
        max_allowed_power == (total_power * m.max_voting_power) \div Unit
    IN  IF total_power = 0 THEN voting_powers
        ELSE [i \in DOMAIN voting_powers |->
                 IF voting_powers[i] > max_allowed_power
                 THEN max_allowed_power ELSE voting_powers[i]]

\* variant: the multiplier takes no account of earlier slashes
slash_multiplier_flat(a) == Unit

\* exponential slashing: slash_multiplier = 1.0 + amount_slashed / original_stake
slash_multiplier(a) == Unit + (a.amount_slashed * Unit) \div a.original_stake

calculate_slash_amount(m, a) ==
    LET base_slash == (get_effective_stake(a) * m.slashing_rate) \div Unit
    IN  CASE m.slashing_method = "linear" -> base_slash
          [] m.slashing_method = "exponential" ->
               (base_slash * slash_multiplier(a)) \div Unit
          [] m.slashing_method = "progressive" ->
               LET times_slashed ==
                       IF m.slashing_rate > 0
                       THEN (a.amount_slashed * Unit)
                                \div ((m.slashing_rate * a.original_stake) \div Unit)
                       ELSE 0
                   progressive_multiplier == Unit + times_slashed \div 2
               IN  (base_slash * progressive_multiplier) \div Unit
          [] OTHER -> base_slash

\* variant: the agents that voted against the outcome are selected
SupportedWrongOutcome_opposed(proposal, proposal_passed, vote) ==
    \/ (proposal_passed /\ ~is_objectively_good(proposal) /\ ~vote)
    \/ (~proposal_passed /\ is_objectively_good(proposal) /\ vote)

\* the test of the loop body of VotingSystem.apply_slashing
SupportedWrongOutcome(proposal, proposal_passed, vote) ==
    \/ (proposal_passed /\ ~is_objectively_good(proposal) /\ vote)
    \/ (~proposal_passed /\ is_objectively_good(proposal) /\ ~vote)

\* variant: slashing is skipped only when the method is none and the rate is 0
apply_slashing_and(m, ags, votes, proposal, proposal_passed) ==
    IF m.slashing_method = "none" /\ m.slashing_rate = 0
    THEN [agents |-> ags, agents_slashed |-> << >>]
    ELSE LET hit(i) == SupportedWrongOutcome(proposal, proposal_passed, votes[i])
         IN  [agents |-> [i \in DOMAIN ags |->
                            IF hit(i)
                            THEN Agent_apply_slashing(ags[i], calculate_slash_amount(m, ags[i]))
                            ELSE ags[i]],
              agents_slashed |->
                  LET idx == SelectSeq([i \in DOMAIN ags |-> i], hit)
                  IN  [k \in DOMAIN idx |-> ags[idx[k]].agent_id]]

\* VotingSystem.apply_slashing: the roster after slashing and the ids slashed
apply_slashing(m, ags, votes, proposal, proposal_passed) ==
    IF m.slashing_method = "none" \/ m.slashing_rate = 0
    THEN [agents |-> ags, agents_slashed |-> << >>]
    ELSE LET hit(i) == SupportedWrongOutcome(proposal, proposal_passed, votes[i])
         IN  [agents |-> [i \in DOMAIN ags |->
                            IF hit(i)
                            THEN Agent_apply_slashing(ags[i], calculate_slash_amount(m, ags[i]))
                            ELSE ags[i]],
              agents_slashed |->
                  LET idx == SelectSeq([i \in DOMAIN ags |-> i], hit)
                  IN  [k \in DOMAIN idx |-> ags[idx[k]].agent_id]]

\* Step 1 of conduct_vote: the votes the agents can cast on this quality
PossibleVotes(ags, quality) ==
    {v \in [DOMAIN ags -> BOOLEAN] :
        \A i \in DOMAIN ags :
            \E u \in Draws : v[i] = vote_on_proposal(ags[i], quality, u)}

\* Step 1 of conduct_vote: the powers after the sybil discount
PossiblePowers(m, ags) ==
    LET full == [i \in DOMAIN ags |-> calculate_voting_power(m, ags[i])]
    IN  {p \in [DOMAIN ags -> {0} \cup {full[i] : i \in DOMAIN ags}] :
            \A i \in DOMAIN ags :
                \E u \in Draws : p[i] = apply_sybil_resistance(m, ags[i], full[i], u)}

\* power of the agents whose vote is `side`, summed in roster order
RECURSIVE TallySide(_, _, _)
TallySide(votes, powers, side) ==
    IF votes = << >> THEN 0
    ELSE (IF Head(votes) = side THEN Head(powers) ELSE 0)
             + TallySide(Tail(votes), Tail(powers), side)

\* variant: a round without voting power passes
decide_passed_default_pass(m, yes_power, total_power) ==
    IF total_power = 0 THEN TRUE
    ELSE LET yes_percentage == (yes_power * Unit) \div total_power
         IN  yes_percentage >= m.consensus_threshold

\* variant: the threshold has to be exceeded
decide_passed_strict(m, yes_power, total_power) ==
    IF total_power = 0 THEN FALSE
    ELSE LET yes_percentage == (yes_power * Unit) \div total_power
         IN  yes_percentage > m.consensus_threshold

\* Step 4 of conduct_vote: the decision against the consensus threshold
decide_passed(m, yes_power, total_power) ==
    IF total_power = 0 THEN FALSE
    ELSE LET yes_percentage == (yes_power * Unit) \div total_power
         IN  yes_percentage >= m.consensus_threshold

\* variant: the totals reported are taken again after slashing, from the
\* stakes the penalties have left
conduct_vote_tally_after_slashing(m, ags, proposal, votes, powers) ==
    LET voting_powers == apply_max_voting_power_cap(m, powers)
        yes_power == TallySide(votes, voting_powers, TRUE)
        no_power == TallySide(votes, voting_powers, FALSE)
        total_power == SumSeq(voting_powers)
        passed == decide_passed(m, yes_power, total_power)
        should_pass == is_objectively_good(proposal)
        correct_outcome == (passed = should_pass)
        slashing == IF ~correct_outcome
                    THEN apply_slashing(m, ags, votes, proposal, passed)
                    ELSE [agents |-> ags, agents_slashed |-> << >>]
        after == apply_max_voting_power_cap(m,
                     [i \in DOMAIN ags |->
                         IF powers[i] = 0 THEN 0
                         ELSE calculate_voting_power(m, slashing.agents[i])])
    IN  [agents |-> slashing.agents,
         voting_powers |-> voting_powers,
         result |-> [proposal |-> proposal,
                     passed |-> passed,
                     total_voting_power |-> SumSeq(after),
                     yes_voting_power |-> TallySide(votes, after, TRUE),
                     no_voting_power |-> TallySide(votes, after, FALSE),
                     votes_cast |-> [id \in {ags[i].agent_id : i \in DOMAIN ags} |->
                                        votes[CHOOSE i \in DOMAIN ags : ags[i].agent_id = id]],
                     agents_slashed |-> slashing.agents_slashed,
                     correct_outcome |-> correct_outcome]]

\* variant: only agents with voting power in the round are slashed
conduct_vote_slash_powered_only(m, ags, proposal, votes, powers) ==
    LET voting_powers == apply_max_voting_power_cap(m, powers)
        yes_power == TallySide(votes, voting_powers, TRUE)
        no_power == TallySide(votes, voting_powers, FALSE)
        total_power == SumSeq(voting_powers)
        passed == decide_passed(m, yes_power, total_power)
        should_pass == is_objectively_good(proposal)
        correct_outcome == (passed = should_pass)
        all == IF ~correct_outcome
               THEN apply_slashing(m, ags, votes, proposal, passed)
               ELSE [agents |-> ags, agents_slashed |-> << >>]
        powered(id) == \E i \in DOMAIN ags : ags[i].agent_id = id /\ voting_powers[i] > 0
        slashing == [agents |-> [i \in DOMAIN ags |->
                                    IF voting_powers[i] > 0 THEN all.agents[i] ELSE ags[i]],
                     agents_slashed |-> SelectSeq(all.agents_slashed, powered)]
    IN  [agents |-> slashing.agents,
         voting_powers |-> voting_powers,
         result |-> [proposal |-> proposal,
                     passed |-> passed,
                     total_voting_power |-> total_power,
                     yes_voting_power |-> yes_power,
                     no_voting_power |-> no_power,
                     votes_cast |-> [id \in {ags[i].agent_id : i \in DOMAIN ags} |->
                                        votes[CHOOSE i \in DOMAIN ags : ags[i].agent_id = id]],
                     agents_slashed |-> slashing.agents_slashed,
                     correct_outcome |-> correct_outcome]]

\* Steps 2 to 6 of conduct_vote, given the votes and discounted powers of step 1
conduct_vote(m, ags, proposal, votes, powers) ==
    LET voting_powers == apply_max_voting_power_cap(m, powers)
        yes_power == TallySide(votes, voting_powers, TRUE)
        no_power == TallySide(votes, voting_powers, FALSE)
        total_power == SumSeq(voting_powers)
        passed == decide_passed(m, yes_power, total_power)
        should_pass == is_objectively_good(proposal)
        correct_outcome == (passed = should_pass)
        slashing == IF ~correct_outcome
                    THEN apply_slashing(m, ags, votes, proposal, passed)
                    ELSE [agents |-> ags, agents_slashed |-> << >>]
    IN  [agents |-> slashing.agents,
         voting_powers |-> voting_powers,
         result |-> [proposal |-> proposal,
                     passed |-> passed,
                     total_voting_power |-> total_power,
                     yes_voting_power |-> yes_power,
                     no_voting_power |-> no_power,
                     votes_cast |-> [id \in {ags[i].agent_id : i \in DOMAIN ags} |->
                                        votes[CHOOSE i \in DOMAIN ags : ags[i].agent_id = id]],
                     agents_slashed |-> slashing.agents_slashed,
                     correct_outcome |-> correct_outcome]]

(***************************************************************************)
(* AgentFactory (src/agents.py): stakes and thresholds the factory draws   *)
(***************************************************************************)
\* samples of random.uniform(5, 10), per factory method
HonestStakes == {5 * Scale}
CollusionStakes == {10 * Scale}
EmotionalStakes == {5 * Scale}
SystematicStakes == {5 * Scale}
\* samples of random.uniform(50, 200)
WhaleStakes == {50 * Scale}
\* samples of random.uniform(0.4, 0.8)
HonestyThresholds == {400, 600}

create_honest_agent(id) ==
    {Agent(id, "honest", s, x) : s \in HonestStakes, x \in HonestyThresholds}
create_collusion_agent(id) == {Agent(id, "collusion", s, NoThreshold) : s \in CollusionStakes}
create_whale_agent(id) == {Agent(id, "whale", s, NoThreshold) : s \in WhaleStakes}
create_sybil_agent(id) == {Agent(id, "sybil", 1 * Scale, NoThreshold)}
create_emotional_bias_agent(id) ==
    {Agent(id, "emotional_bias", s, NoThreshold) : s \in EmotionalStakes}
create_systematic_bias_agent(id) ==
    {Agent(id, "systematic_bias", s, NoThreshold) : s \in SystematicStakes}

\* the factory methods, adversaries first as in the scenario generators
FactoryMethods == <<"collusion", "whale", "sybil", "emotional_bias", "systematic_bias", "honest">>

create_agent(type, id) ==
    CASE type = "honest" -> create_honest_agent(id)
      [] type = "collusion" -> create_collusion_agent(id)
      [] type = "whale" -> create_whale_agent(id)
      [] type = "sybil" -> create_sybil_agent(id)
      [] type = "emotional_bias" -> create_emotional_bias_agent(id)
      [] type = "systematic_bias" -> create_systematic_bias_agent(id)

(***************************************************************************)
(* GovernanceMechanism (src/generator.py): sampled parameter values        *)
(***************************************************************************)
voting_methods == {"simple_majority", "weighted", "quadratic"}
stake_methods == {"token_based", "reputation_based", "hybrid", "equal_weight"}
slashing_methods == {"none", "linear", "exponential", "progressive"}
consensus_thresholds == {500, 1000}
slashing_rates == {0, 300}
sybil_resistance_values == {0, 500, 1000}
max_voting_power_values == {500, 1000}

GovernanceMechanism(vm, sm, sl, ct, sr, sy, mp) ==
    [voting_method |-> vm, stake_method |-> sm, slashing_method |-> sl,
     consensus_threshold |-> ct, slashing_rate |-> sr, sybil_resistance |-> sy,
     max_voting_power |-> mp]

\* every power pipeline (voting method, stake method, cap), sybil discount by chance
PowerMechanisms ==
    {GovernanceMechanism(vm, sm, "linear", 500, 300, 500, mp) :
        vm \in voting_methods, sm \in stake_methods, mp \in max_voting_power_values}

\* every decision and slashing setting (threshold, slashing method and rate),
\* sybil discount never or always
SlashingMechanisms ==
    {GovernanceMechanism("weighted", "token_based", sl, ct, sr, sy, 1000) :
        sl \in slashing_methods, ct \in consensus_thresholds,
        sr \in slashing_rates, sy \in {0, 1000}}

Mechanisms == PowerMechanisms \cup SlashingMechanisms

(***************************************************************************)
(* State                                                                   *)
(***************************************************************************)
VARIABLES
    mechanism,        \* VotingSystem.mechanism
    agents,           \* the roster: a sequence of Agent records
    agent_counter,    \* AgentFactory.agent_counter
    proposal_counter, \* SimulationEngine.proposal_counter
    proposal,         \* the proposal of the current round
    result,           \* what the last conduct_vote returned or raised
    round_agents,     \* conduct_vote: the roster as it was on entry
    uncapped_powers,  \* conduct_vote: voting_powers after step 1
    voting_powers,    \* conduct_vote: voting_powers after step 2
    last_op,          \* the operation that ran last
    calls,            \* number of direct calls made so far
    pc,               \* position of the caller
    attack_type,      \* run_attack_scenario: attack_type
    instances,        \* run_attack_scenario: instances
    rounds,           \* run_attack_scenario: rounds_per_instance
    instance,         \* run_attack_scenario: loop variable
    round_num,        \* run_attack_instance: loop variable
    results,          \* run_attack_instance: correct_outcome of each result appended
    total_votes,      \* run_attack_scenario: total_votes
    total_correct,    \* run_attack_scenario: total_correct
    attack_result,    \* the AttackResult run_attack_scenario returned
    ret,              \* a single method called on its own: arguments and return value
    units,            \* pipeline: the test_single_mechanism executions, one per mechanism
    workers,          \* pipeline: the unit each pool worker is executing (0: none)
    generated_mechanisms, \* MechanismGenerator.generated_mechanisms
    gen,              \* generate_unique_mechanisms: the locals of the running call
    returned          \* generate_unique_mechanisms: what each call so far returned

voteVars == <<mechanism, agents, agent_counter, proposal_counter, proposal, result,
              round_agents, uncapped_powers, voting_powers, last_op, calls, pc>>
engineVars == <<attack_type, instances, rounds, instance, round_num, results,
                total_votes, total_correct, attack_result>>
otherVars == <<ret, units, workers, generated_mechanisms, gen, returned>>
vars == <<voteVars, engineVars, otherVars>>

NoResult == [none |-> TRUE]
NoProposal == [none |-> TRUE]
NoCall == [pc |-> "idle"]

\* no single call made, no pipeline started, a MechanismGenerator just constructed
OtherInit ==
    /\ ret = NoResult
    /\ units = << >>
    /\ workers = << >>
    /\ generated_mechanisms = {}
    /\ gen = NoCall
    /\ returned = << >>

\* rosters of n factory-built agents with ids first + 1 .. first + n, the
\* factory methods called in the order of FactoryMethods from method k on
RECURSIVE Rosters(_, _, _)
Rosters(first, n, k) ==
    IF n = 0 THEN {<< >>}
    ELSE UNION {{<<a>> \o r : a \in create_agent(FactoryMethods[j], first + 1),
                              r \in Rosters(first + 1, n - 1, j)} :
                j \in k..Len(FactoryMethods)}

(***************************************************************************)
(* Direct use of VotingSystem.conduct_vote and Agent.apply_slashing        *)
(***************************************************************************)
\* amounts handed to Agent.apply_slashing directly
SlashAmounts == {2 * Scale, 300 * Scale}

VoteInit ==
    /\ mechanism \in Mechanisms
    /\ \E n \in 0..MaxAgents : agents \in Rosters(0, n, 1)
    /\ agent_counter = Len(agents)
    /\ proposal_counter = 0
    /\ proposal = NoProposal
    /\ result = NoResult
    /\ round_agents = << >>
    /\ uncapped_powers = << >>
    /\ voting_powers = << >>
    /\ last_op = "init"
    /\ calls = 0
    /\ pc = "api"
    /\ attack_type = "none"
    /\ instances = 0
    /\ rounds = 0
    /\ instance = 0
    /\ round_num = 0
    /\ results = << >>
    /\ total_votes = 0
    /\ total_correct = 0
    /\ attack_result = NoResult
    /\ OtherInit

\* voting_system.conduct_vote(agents, Proposal(id, quality))
CallConductVote ==
    /\ pc = "api"
    /\ calls < MaxCalls
    /\ \E quality \in Qualities :
         \E votes \in PossibleVotes(agents, quality) :
           \E powers \in PossiblePowers(mechanism, agents) :
             LET p == Proposal(proposal_counter + 1, quality)
                 out == conduct_vote(mechanism, agents, p, votes, powers)
             IN  /\ proposal' = p
                 /\ proposal_counter' = proposal_counter + 1
                 /\ round_agents' = agents
                 /\ uncapped_powers' = powers
                 /\ voting_powers' = out.voting_powers
                 /\ agents' = out.agents
                 /\ result' = out.result
    /\ last_op' = "conduct_vote"
    /\ calls' = calls + 1
    /\ UNCHANGED <<mechanism, agent_counter, pc, engineVars>>
    /\ UNCHANGED otherVars

\* agent.apply_slashing(slash_amount) on one agent of the roster
CallAgentApplySlashing ==
    /\ pc = "api"
    /\ calls < MaxCalls
    /\ \E i \in DOMAIN agents : \E amount \in SlashAmounts :
         agents' = [agents EXCEPT ![i] = Agent_apply_slashing(agents[i], amount)]
    /\ last_op' = "apply_slashing"
    /\ calls' = calls + 1
    /\ UNCHANGED <<mechanism, agent_counter, proposal_counter, proposal, result,
                   round_agents, uncapped_powers, voting_powers, pc, engineVars>>
    /\ UNCHANGED otherVars

VoteNext == CallConductVote \/ CallAgentApplySlashing

VoteSpec == VoteInit /\ [][VoteNext]_vars

(***************************************************************************)
(* AttackScenarioGenerator (src/agents.py), scaled down: each scenario has *)
(* AdversariesPerGroup agents of each adversarial type it uses, then       *)
(* HonestPerScenario honest agents.                                        *)
(***************************************************************************)
AdversariesPerGroup == 1
HonestPerScenario == 1

AttackTypes == <<"collusion", "whale", "sybil", "bias">>

\* the factory methods a scenario calls, in order
RepeatType(type, n) == [i \in 1..n |-> type]
ScenarioTypes(attack) ==
    CASE attack = "collusion" -> RepeatType("collusion", AdversariesPerGroup)
                                     \o RepeatType("honest", HonestPerScenario)
      [] attack = "whale" -> RepeatType("whale", AdversariesPerGroup)
                                 \o RepeatType("honest", HonestPerScenario)
      [] attack = "sybil" -> RepeatType("sybil", AdversariesPerGroup)
                                 \o RepeatType("honest", HonestPerScenario)
      [] attack = "bias" -> RepeatType("emotional_bias", AdversariesPerGroup)
                                \o RepeatType("systematic_bias", AdversariesPerGroup)
                                \o RepeatType("honest", HonestPerScenario)

\* the populations the factory can build for these types, ids from counter + 1
RECURSIVE BuildAgents(_, _)
BuildAgents(types, counter) ==
    IF types = << >> THEN {<< >>}
    ELSE {<<a>> \o r : a \in create_agent(Head(types), counter + 1),
                       r \in BuildAgents(Tail(types), counter + 1)}

generate_scenario(attack, counter) == BuildAgents(ScenarioTypes(attack), counter)

(***************************************************************************)
(* SimulationEngine (src/simulation.py)                                    *)
(***************************************************************************)
\* largest instances and rounds_per_instance handed to run_attack_scenario
MaxInstances == 2
MaxRounds == 2

\* mechanisms the engine is run with: every slashing method
EngineMechanisms ==
    {GovernanceMechanism("weighted", "token_based", sl, 500, 300, 500, 1000) :
        sl \in slashing_methods}
        \cup {GovernanceMechanism("weighted", "token_based", "exponential", 500, 50, 500, 1000)}

AttackResult(attack, m, votes, correct) ==
    [attack_type |-> attack, mechanism |-> m, total_votes |-> votes,
     correct_outcomes |-> correct,
     success_rate |-> IF votes > 0 THEN (correct * Unit) \div votes ELSE 0]

\* engine = SimulationEngine(); engine.run_attack_scenario(mechanism, attack_type,
\* instances, rounds_per_instance)
Init ==
    /\ mechanism \in EngineMechanisms
    /\ attack_type \in {AttackTypes[i] : i \in DOMAIN AttackTypes}
    /\ instances \in 0..MaxInstances
    /\ rounds \in 0..MaxRounds
    /\ agents = << >>
    /\ agent_counter = 0
    /\ proposal_counter = 0
    /\ proposal = NoProposal
    /\ result = NoResult
    /\ round_agents = << >>
    /\ uncapped_powers = << >>
    /\ voting_powers = << >>
    /\ last_op = "init"
    /\ calls = 0
    /\ pc = "scenario"
    /\ instance = 0
    /\ round_num = 0
    /\ results = << >>
    /\ total_votes = 0
    /\ total_correct = 0
    /\ attack_result = NoResult
    /\ OtherInit

\* variant: reset_factory() is called before each population is built
GenerateScenario_reset_factory ==
    /\ pc = "scenario"
    /\ instance < instances
    /\ agents' \in generate_scenario(attack_type, 0)
    /\ agent_counter' = Len(agents')
    /\ results' = << >>
    /\ round_num' = 0
    /\ pc' = "instance"
    /\ last_op' = "generate_scenario"
    /\ UNCHANGED <<mechanism, proposal_counter, proposal, result, round_agents,
                   uncapped_powers, voting_powers, calls, attack_type, instances,
                   rounds, instance, total_votes, total_correct, attack_result>>
    /\ UNCHANGED otherVars

\* variant: the population of the previous instance is used again
GenerateScenario_reused ==
    /\ pc = "scenario"
    /\ instance < instances
    /\ agents' \in IF agents = << >> THEN generate_scenario(attack_type, agent_counter)
                                     ELSE {agents}
    /\ agent_counter' = IF agents = << >> THEN agent_counter + Len(agents')
                                          ELSE agent_counter
    /\ results' = << >>
    /\ round_num' = 0
    /\ pc' = "instance"
    /\ last_op' = "generate_scenario"
    /\ UNCHANGED <<mechanism, proposal_counter, proposal, result, round_agents,
                   uncapped_powers, voting_powers, calls, attack_type, instances,
                   rounds, instance, total_votes, total_correct, attack_result>>
    /\ UNCHANGED otherVars

\* run_attack_scenario, top of the loop body: fresh agents, run_attack_instance entered
GenerateScenario ==
    /\ pc = "scenario"
    /\ instance < instances
    /\ agents' \in generate_scenario(attack_type, agent_counter)
    /\ agent_counter' = agent_counter + Len(agents')
    /\ results' = << >>
    /\ round_num' = 0
    /\ pc' = "instance"
    /\ last_op' = "generate_scenario"
    /\ UNCHANGED <<mechanism, proposal_counter, proposal, result, round_agents,
                   uncapped_powers, voting_powers, calls, attack_type, instances,
                   rounds, instance, total_votes, total_correct, attack_result>>
    /\ UNCHANGED otherVars

\* the qualities generate_proposal draws
generate_proposal_qualities(u) ==
    IF u < 300 THEN {q \in Qualities : 400 <= q /\ q <= 600}
               ELSE {q \in Qualities : q < Unit}

\* run_attack_instance, loop body: proposal = self.generate_proposal()
GenerateProposal ==
    /\ pc = "instance"
    /\ round_num < rounds
    /\ proposal_counter' = proposal_counter + 1
    /\ \E u \in Draws : \E q \in generate_proposal_qualities(u) :
         proposal' = Proposal(proposal_counter', q)
    /\ pc' = "vote"
    /\ last_op' = "generate_proposal"
    /\ UNCHANGED <<mechanism, agents, agent_counter, result, round_agents,
                   uncapped_powers, voting_powers, calls, engineVars>>
    /\ UNCHANGED otherVars

\* run_attack_instance, loop body: result = conduct_vote(agents, proposal); append
ConductVote ==
    /\ pc = "vote"
    /\ \E votes \in PossibleVotes(agents, proposal.quality) :
         \E powers \in PossiblePowers(mechanism, agents) :
           LET out == conduct_vote(mechanism, agents, proposal, votes, powers)
           IN  /\ round_agents' = agents
               /\ uncapped_powers' = powers
               /\ voting_powers' = out.voting_powers
               /\ agents' = out.agents
               /\ result' = out.result
               /\ results' = Append(results, out.result.correct_outcome)
    /\ round_num' = round_num + 1
    /\ pc' = "instance"
    /\ last_op' = "conduct_vote"
    /\ UNCHANGED <<mechanism, agent_counter, proposal_counter, proposal, calls,
                   attack_type, instances, rounds, instance, total_votes,
                   total_correct, attack_result>>
    /\ UNCHANGED otherVars

\* variant: one vote is counted per instance
CountResults_per_instance ==
    /\ pc = "instance"
    /\ round_num >= rounds
    /\ total_votes' = total_votes + 1
    /\ total_correct' = total_correct + Cardinality({i \in DOMAIN results : results[i]})
    /\ instance' = instance + 1
    /\ pc' = "scenario"
    /\ last_op' = "count_results"
    /\ UNCHANGED <<mechanism, agents, agent_counter, proposal_counter, proposal,
                   result, round_agents, uncapped_powers, voting_powers, calls,
                   attack_type, instances, rounds, round_num, results, attack_result>>
    /\ UNCHANGED otherVars

\* run_attack_instance returns; run_attack_scenario counts the correct outcomes
CountResults ==
    /\ pc = "instance"
    /\ round_num >= rounds
    /\ total_votes' = total_votes + Len(results)
    /\ total_correct' = total_correct + Cardinality({i \in DOMAIN results : results[i]})
    /\ instance' = instance + 1
    /\ pc' = "scenario"
    /\ last_op' = "count_results"
    /\ UNCHANGED <<mechanism, agents, agent_counter, proposal_counter, proposal,
                   result, round_agents, uncapped_powers, voting_powers, calls,
                   attack_type, instances, rounds, round_num, results, attack_result>>
    /\ UNCHANGED otherVars

\* run_attack_scenario, after the loop: return AttackResult(...)
ReturnAttackResult ==
    /\ pc = "scenario"
    /\ instance >= instances
    /\ attack_result' = AttackResult(attack_type, mechanism, total_votes, total_correct)
    /\ pc' = "done"
    /\ last_op' = "return"
    /\ UNCHANGED <<mechanism, agents, agent_counter, proposal_counter, proposal,
                   result, round_agents, uncapped_powers, voting_powers, calls,
                   attack_type, instances, rounds, instance, round_num, results,
                   total_votes, total_correct>>
    /\ UNCHANGED otherVars

Next ==
    \/ GenerateScenario
    \/ GenerateProposal
    \/ ConductVote
    \/ CountResults
    \/ ReturnAttackResult

Spec == Init /\ [][Next]_vars

(***************************************************************************)
(* A single agent asked for its vote: agent.vote_on_proposal(proposal)     *)
(***************************************************************************)
\* honesty thresholds of uniform(0.4, 0.8): both ends and two inner values
BehaviorThresholds == {400, 500, 600, 800}

\* proposal qualities on, just inside and just outside every band edge
BehaviorQualities ==
    {0, 200, 300, 350, 351, 380, 400, 401, 450, 499, 500, 501, 599, 600, 620,
     649, 650, 651, 800, 900, 999}

BehaviorAgents ==
    {Agent(1, "honest", s, x) : s \in HonestStakes, x \in BehaviorThresholds}
        \cup create_collusion_agent(1) \cup create_whale_agent(1)
        \cup create_sybil_agent(1) \cup create_emotional_bias_agent(1)
        \cup create_systematic_bias_agent(1)

NoMechanism == [none |-> TRUE]

\* no SimulationEngine is running
NoEngine ==
    /\ attack_type = "none"
    /\ instances = 0
    /\ rounds = 0
    /\ instance = 0
    /\ round_num = 0
    /\ results = << >>
    /\ total_votes = 0
    /\ total_correct = 0
    /\ attack_result = NoResult

BehaviorInit ==
    /\ mechanism = NoMechanism
    /\ agents \in {<<a>> : a \in BehaviorAgents}
    /\ agent_counter = 1
    /\ proposal_counter = 0
    /\ proposal = NoProposal
    /\ result = NoResult
    /\ round_agents = << >>
    /\ uncapped_powers = << >>
    /\ voting_powers = << >>
    /\ last_op = "init"
    /\ calls = 0
    /\ pc = "api"
    /\ NoEngine
    /\ OtherInit

\* agent.vote_on_proposal(Proposal(id, quality)), one random.random() draw u
CallVoteOnProposal ==
    /\ pc = "api"
    /\ \E quality \in BehaviorQualities : \E u \in Draws :
         ret' = [agent |-> agents[1], quality |-> quality, draw |-> u,
                 vote |-> vote_on_proposal(agents[1], quality, u)]
    /\ last_op' = "vote_on_proposal"
    /\ UNCHANGED <<mechanism, agents, agent_counter, proposal_counter, proposal,
                   result, round_agents, uncapped_powers, voting_powers, calls, pc,
                   engineVars, units, workers, generated_mechanisms, gen, returned>>

BehaviorNext == CallVoteOnProposal

BehaviorSpec == BehaviorInit /\ [][BehaviorNext]_vars

(***************************************************************************)
(* conduct_vote on configurations and agents outside the recognised        *)
(* values: what raises and what goes through                               *)
(***************************************************************************)
ValueError(message) == [error |-> "ValueError", message |-> message]
NoError == [error |-> "none"]
IsValueError(r) == "error" \in DOMAIN r /\ r.error = "ValueError"

\* Agent.vote_on_proposal: the else branch of the dispatch on agent_type
vote_on_proposal_error(a) ==
    IF a.agent_type \in AgentTypes THEN NoError ELSE ValueError("Unknown agent type")

\* VotingSystem.calculate_voting_power: the stake method is dispatched on
\* first, the voting method second
calculate_voting_power_error(m) ==
    IF m.stake_method \notin {"equal_weight", "token_based", "reputation_based", "hybrid"}
    THEN ValueError("Unknown stake method")
    ELSE IF m.voting_method \notin {"simple_majority", "weighted", "quadratic"}
    THEN ValueError("Unknown voting method")
    ELSE NoError

\* variant: under simple_majority the stake method is not looked at
conduct_vote_error_stake_unused(m, ags) ==
    IF ags = << >> THEN NoError
    ELSE IF vote_on_proposal_error(ags[1]) # NoError THEN vote_on_proposal_error(ags[1])
    ELSE IF m.voting_method # "simple_majority" /\ calculate_voting_power_error(m) # NoError
    THEN calculate_voting_power_error(m)
    ELSE IF \E j \in 2..Len(ags) : vote_on_proposal_error(ags[j]) # NoError
    THEN ValueError("Unknown agent type")
    ELSE NoError

\* conduct_vote, step 1: the first exception the loop over the agents runs
\* into, NoError if it completes
conduct_vote_error(m, ags) ==
    IF ags = << >> THEN NoError
    ELSE IF vote_on_proposal_error(ags[1]) # NoError THEN vote_on_proposal_error(ags[1])
    ELSE IF calculate_voting_power_error(m) # NoError THEN calculate_voting_power_error(m)
    ELSE IF \E j \in 2..Len(ags) : vote_on_proposal_error(ags[j]) # NoError
    THEN ValueError("Unknown agent type")
    ELSE NoError

\* mechanisms with a recognised or an unrecognised value in each method field
ConfigMechanisms ==
    {GovernanceMechanism(vm, sm, sl, 500, sr, 0, 1000) :
        vm \in {"weighted", "simple_majority", "ranked_choice"},
        sm \in {"token_based", "proof_of_work"},
        sl \in {"none", "linear", "burn_all"},
        sr \in {0, 300}}

\* agents of two recognised types and of an unrecognised one
ConfigAgents(id) ==
    {Agent(id, "honest", 5 * Scale, 600), Agent(id, "systematic_bias", 5 * Scale, NoThreshold),
     Agent(id, "observer", 5 * Scale, NoThreshold)}

RECURSIVE ConfigRosters(_, _)
ConfigRosters(first, n) ==
    IF n = 0 THEN {<< >>}
    ELSE {<<a>> \o r : a \in ConfigAgents(first + 1), r \in ConfigRosters(first + 1, n - 1)}

ConfigInit ==
    /\ mechanism \in ConfigMechanisms
    /\ \E n \in 0..MaxAgents : agents \in ConfigRosters(0, n)
    /\ agent_counter = Len(agents)
    /\ proposal_counter = 0
    /\ proposal = NoProposal
    /\ result = NoResult
    /\ round_agents = << >>
    /\ uncapped_powers = << >>
    /\ voting_powers = << >>
    /\ last_op = "init"
    /\ calls = 0
    /\ pc = "api"
    /\ NoEngine
    /\ OtherInit

\* voting_system.conduct_vote(agents, proposal) runs to its return statement
ConductVoteReturns ==
    /\ conduct_vote_error(mechanism, agents) = NoError
    /\ CallConductVote

\* voting_system.conduct_vote(agents, proposal) raises in step 1
ConductVoteRaises ==
    /\ pc = "api"
    /\ calls < MaxCalls
    /\ conduct_vote_error(mechanism, agents) # NoError
    /\ \E quality \in Qualities : proposal' = Proposal(proposal_counter + 1, quality)
    /\ proposal_counter' = proposal_counter + 1
    /\ round_agents' = agents
    /\ uncapped_powers' = << >>
    /\ voting_powers' = << >>
    /\ result' = conduct_vote_error(mechanism, agents)
    /\ last_op' = "conduct_vote"
    /\ calls' = calls + 1
    /\ UNCHANGED <<mechanism, agents, agent_counter, pc, engineVars, otherVars>>

ConfigNext == ConductVoteReturns \/ ConductVoteRaises \/ CallAgentApplySlashing

ConfigSpec == ConfigInit /\ [][ConfigNext]_vars

(***************************************************************************)
(* GovernancePipeline.run_pipeline (src/pipeline.py): pool.map of          *)
(* test_single_mechanism over the mechanisms.  Each pool worker is a       *)
(* process that executes one unit at a time; workers run side by side.     *)
(* run_attack_scenario is scaled down to PoolInstances instances of        *)
(* PoolRounds rounds, and its outcome is the number of correct rounds.     *)
(***************************************************************************)
MaxUnits == 2
MaxWorkers == 2
PoolInstances == 1
PoolRounds == 1

PoolMechanisms ==
    {GovernanceMechanism("weighted", "token_based", "linear", 500, 300, 500, 1000),
     GovernanceMechanism("quadratic", "hybrid", "none", 500, 0, 0, 1000)}

\* engine = SimulationEngine()
SimulationEngine == [agent_counter |-> 0, proposal_counter |-> 0]
NotStarted == [agent_counter |-> 0 - 1, proposal_counter |-> 0 - 1]

PoolInit ==
    /\ \E n \in 1..MaxUnits : \E ms \in [1..n -> PoolMechanisms] :
         units = [u \in 1..n |->
                    [mechanism |-> ms[u], pc |-> "queued", worker |-> 0,
                     engine |-> NotStarted, next_attack |-> 1, results |-> << >>]]
    /\ \E k \in 1..MaxWorkers : workers = [w \in 1..k |-> 0]
    /\ mechanism = NoMechanism
    /\ agents = << >>
    /\ agent_counter = 0
    /\ proposal_counter = 0
    /\ proposal = NoProposal
    /\ result = NoResult
    /\ round_agents = << >>
    /\ uncapped_powers = << >>
    /\ voting_powers = << >>
    /\ last_op = "init"
    /\ calls = 0
    /\ pc = "pool"
    /\ NoEngine
    /\ ret = NoResult
    /\ generated_mechanisms = {}
    /\ gen = NoCall
    /\ returned = << >>

PoolUnchanged ==
    UNCHANGED <<mechanism, agents, agent_counter, proposal_counter, proposal, result,
                round_agents, uncapped_powers, voting_powers, calls, pc, engineVars,
                ret, generated_mechanisms, gen, returned>>

\* variant: the engine is a module-level object of the worker process, so a
\* unit goes on with the engine the worker's previous unit left behind
WorkerTakesUnit_shared_engine ==
    /\ pc = "pool"
    /\ \E w \in DOMAIN workers : \E u \in DOMAIN units :
         /\ workers[w] = 0
         /\ units[u].pc = "queued"
         /\ \A v \in 1..(u - 1) : units[v].pc # "queued"
         /\ workers' = [workers EXCEPT ![w] = u]
         /\ units' = [units EXCEPT ![u].pc = "running", ![u].worker = w,
                         ![u].engine =
                            IF \E v \in DOMAIN units : units[v].worker = w
                            THEN units[CHOOSE v \in DOMAIN units : units[v].worker = w].engine
                            ELSE SimulationEngine,
                         ![u].results = << >>]
    /\ last_op' = "test_single_mechanism"
    /\ PoolUnchanged

\* an idle worker takes the next mechanism: test_single_mechanism(mechanism)
\* starts with engine = SimulationEngine() and results = {}
WorkerTakesUnit ==
    /\ pc = "pool"
    /\ \E w \in DOMAIN workers : \E u \in DOMAIN units :
         /\ workers[w] = 0
         /\ units[u].pc = "queued"
         /\ \A v \in 1..(u - 1) : units[v].pc # "queued"
         /\ workers' = [workers EXCEPT ![w] = u]
         /\ units' = [units EXCEPT ![u].pc = "running", ![u].worker = w,
                         ![u].engine = SimulationEngine, ![u].results = << >>]
    /\ last_op' = "test_single_mechanism"
    /\ PoolUnchanged

\* test_single_mechanism, loop body:
\* results[attack_type] = engine.run_attack_scenario(mechanism, attack_type)
UnitRunsScenario ==
    /\ pc = "pool"
    /\ \E u \in DOMAIN units :
         /\ units[u].pc = "running"
         /\ units[u].next_attack <= Len(AttackTypes)
         /\ LET attack == AttackTypes[units[u].next_attack]
                votes == PoolInstances * PoolRounds
                e == units[u].engine
            IN  \E correct \in 0..votes :
                  units' = [units EXCEPT
                      ![u].engine =
                          [agent_counter |-> e.agent_counter
                                               + PoolInstances * Len(ScenarioTypes(attack)),
                           proposal_counter |-> e.proposal_counter + votes],
                      ![u].results =
                          [a \in DOMAIN units[u].results \cup {attack} |->
                              IF a = attack
                              THEN AttackResult(attack, units[u].mechanism, votes, correct)
                              ELSE units[u].results[a]],
                      ![u].next_attack = units[u].next_attack + 1]
    /\ last_op' = "run_attack_scenario"
    /\ UNCHANGED workers
    /\ PoolUnchanged

\* test_single_mechanism returns (mechanism, results); its worker is free again
UnitReturns ==
    /\ pc = "pool"
    /\ \E u \in DOMAIN units :
         /\ units[u].pc = "running"
         /\ units[u].next_attack > Len(AttackTypes)
         /\ units' = [units EXCEPT ![u].pc = "returned"]
         /\ workers' = [workers EXCEPT ![units[u].worker] = 0]
    /\ last_op' = "return"
    /\ PoolUnchanged

PoolNext == WorkerTakesUnit \/ UnitRunsScenario \/ UnitReturns

PoolSpec == PoolInit /\ [][PoolNext]_vars

(***************************************************************************)
(* MechanismGenerator.generate_unique_mechanisms (src/generator.py),       *)
(* called repeatedly on one generator                                      *)
(***************************************************************************)
MaxGenCalls == 3
MaxNumMechanisms == 2

\* GovernanceMechanism.__eq__ (dataclass): the seven fields compared in order
mechanism_eq(a, b) ==
    <<a.voting_method, a.stake_method, a.slashing_method, a.consensus_threshold,
      a.slashing_rate, a.sybil_resistance, a.max_voting_power>>
    = <<b.voting_method, b.stake_method, b.slashing_method, b.consensus_threshold,
        b.slashing_rate, b.sybil_resistance, b.max_voting_power>>

\* GovernanceMechanism.__hash__: the hash of the tuple of the seven fields
mechanism_hash(a) ==
    <<a.voting_method, a.stake_method, a.slashing_method, a.consensus_threshold,
      a.slashing_rate, a.sybil_resistance, a.max_voting_power>>

\* variant: objects are compared by identity, and a mechanism just
\* constructed is no object of the set
already_generated_identity(m, generated) == FALSE

\* mechanism in self.generated_mechanisms: same hash, then equal
already_generated(m, generated) ==
    \E g \in generated : mechanism_hash(g) = mechanism_hash(m) /\ mechanism_eq(g, m)

\* variant: sybil_resistance_values holds 0.95
generate_random_mechanism_sybil_095 ==
    {GovernanceMechanism(vm, "token_based", "linear", 500, sr, 950, 1000) :
        vm \in {"simple_majority", "weighted"}, sr \in {0, 300}}

\* generate_random_mechanism(): one random.choice per field, from lists cut
\* down to two voting methods and two slashing rates
generate_random_mechanism ==
    {GovernanceMechanism(vm, "token_based", "linear", 500, sr, 0, 1000) :
        vm \in {"simple_majority", "weighted"}, sr \in {0, 300}}

GenInit ==
    /\ generated_mechanisms = {}
    /\ gen = NoCall
    /\ returned = << >>
    /\ calls = 0
    /\ pc = "generator"
    /\ last_op = "init"
    /\ mechanism = NoMechanism
    /\ agents = << >>
    /\ agent_counter = 0
    /\ proposal_counter = 0
    /\ proposal = NoProposal
    /\ result = NoResult
    /\ round_agents = << >>
    /\ uncapped_powers = << >>
    /\ voting_powers = << >>
    /\ NoEngine
    /\ ret = NoResult
    /\ units = << >>
    /\ workers = << >>

GenUnchanged ==
    UNCHANGED <<mechanism, agents, agent_counter, proposal_counter, proposal, result,
                round_agents, uncapped_powers, voting_powers, pc, engineVars,
                ret, units, workers>>

\* generator.generate_unique_mechanisms(num_mechanisms), up to the loop
CallGenerateUniqueMechanisms ==
    /\ pc = "generator"
    /\ gen.pc # "loop"
    /\ calls < MaxGenCalls
    /\ \E num_mechanisms \in 0..MaxNumMechanisms :
         gen' = [pc |-> "loop", num_mechanisms |-> num_mechanisms, mechanisms |-> << >>,
                 max_attempts |-> num_mechanisms * 10, attempts |-> 0]
    /\ calls' = calls + 1
    /\ last_op' = "generate_unique_mechanisms"
    /\ UNCHANGED <<generated_mechanisms, returned>>
    /\ GenUnchanged

\* one pass through the while loop
GenerateAttempt ==
    /\ pc = "generator"
    /\ gen.pc = "loop"
    /\ Len(gen.mechanisms) < gen.num_mechanisms
    /\ gen.attempts < gen.max_attempts
    /\ \E m \in generate_random_mechanism :
         IF ~already_generated(m, generated_mechanisms)
         THEN /\ generated_mechanisms' = generated_mechanisms \cup {m}
              /\ gen' = [gen EXCEPT !.mechanisms = Append(gen.mechanisms, m),
                                    !.attempts = gen.attempts + 1]
         ELSE /\ generated_mechanisms' = generated_mechanisms
              /\ gen' = [gen EXCEPT !.attempts = gen.attempts + 1]
    /\ last_op' = "generate_random_mechanism"
    /\ UNCHANGED <<returned, calls>>
    /\ GenUnchanged

\* the loop condition fails: return mechanisms
GenerateReturns ==
    /\ pc = "generator"
    /\ gen.pc = "loop"
    /\ ~(Len(gen.mechanisms) < gen.num_mechanisms /\ gen.attempts < gen.max_attempts)
    /\ returned' = Append(returned, [num_mechanisms |-> gen.num_mechanisms,
                                     mechanisms |-> gen.mechanisms])
    /\ gen' = [gen EXCEPT !.pc = "returned"]
    /\ last_op' = "return"
    /\ UNCHANGED <<generated_mechanisms, calls>>
    /\ GenUnchanged

GenNext == CallGenerateUniqueMechanisms \/ GenerateAttempt \/ GenerateReturns

GenSpec == GenInit /\ [][GenNext]_vars

(***************************************************************************)
(* Binary floating point.  Python's float rounds every sum, product and    *)
(* quotient to the nearest value of 53 significant bits, ties to even;     *)
(* here the same with FloatBits significant bits.  A value is held as its  *)
(* multiple of 2^-FracBits, the smallest step.                             *)
(***************************************************************************)
FloatBits == 4
FracBits == 10

RECURSIVE Pow2(_)
Pow2(k) == IF k = 0 THEN 1 ELSE 2 * Pow2(k - 1)

\* 1.0
FloatOne == Pow2(FracBits)

\* the spacing of the floats around n / d
RECURSIVE Quantum(_, _, _)
Quantum(n, d, q) == IF n < Pow2(FloatBits) * q * d THEN q ELSE Quantum(n, d, 2 * q)

\* n / d rounded to the nearest float, ties to the even significand
float(n, d) ==
    LET q == Quantum(n, d, 1)
        m == n \div (d * q)
        r == n - m * d * q
    IN  IF 2 * r > d * q \/ (2 * r = d * q /\ m % 2 = 1) THEN (m + 1) * q ELSE m * q

\* a + b on floats
float_add(a, b) == float(a + b, 1)

(***************************************************************************)
(* conduct_vote with the tally of step 3 in floating point                 *)
(***************************************************************************)
\* largest roster of the floating-point rounds
MaxTally == 3

\* samples of random.uniform(5, 10), as floats: 5.0, 5.5, 6.5, 8.0, 8.5, 10.0
TallyStakes == {float(k * FloatOne, 2) : k \in {10, 11, 13, 16, 17, 20}}

\* the power of an agent is its stake: no sybil discount, no cap, no slashing
TallyMechanism == GovernanceMechanism("weighted", "token_based", "none", 500, 0, 0, 1000)

\* proposal qualities: one an honest agent votes on either way, one it accepts
TallyQualities == {450, 600}

RECURSIVE TallyRosters(_)
TallyRosters(n) ==
    IF n = 0 THEN {<< >>}
    ELSE {r \o <<Agent(n, "honest", s, 500)>> : r \in TallyRosters(n - 1), s \in TallyStakes}

\* variant: total_power is advanced in the YES branch only
tally_step_total_of_yes(acc, vote, power) ==
    IF vote
    THEN [acc EXCEPT !.total_power = float_add(@, power),
                     !.yes_power = float_add(@, power)]
    ELSE [acc EXCEPT !.no_power = float_add(@, power)]

\* Step 3 of conduct_vote, the loop body: three float accumulators
tally_step(acc, vote, power) ==
    LET total == [acc EXCEPT !.total_power = float_add(@, power)]
    IN  IF vote
        THEN [total EXCEPT !.yes_power = float_add(@, power)]
        ELSE [total EXCEPT !.no_power = float_add(@, power)]

\* Step 3 of conduct_vote: the loop over votes_cast, in roster order
RECURSIVE tally_votes(_, _, _)
tally_votes(votes, powers, acc) ==
    IF votes = << >> THEN acc
    ELSE tally_votes(Tail(votes), Tail(powers), tally_step(acc, Head(votes), Head(powers)))

\* conduct_vote under TallyMechanism, given the votes of step 1
conduct_vote_float(m, ags, p, votes) ==
    LET powers == [i \in DOMAIN ags |-> calculate_voting_power(m, ags[i])]
        capped == apply_max_voting_power_cap(m, powers)
        tally == tally_votes(votes, capped,
                             [yes_power |-> 0, no_power |-> 0, total_power |-> 0])
        passed == decide_passed(m, tally.yes_power, tally.total_power)
    IN  [uncapped_powers |-> powers,
         voting_powers |-> capped,
         result |-> [proposal |-> p,
                     passed |-> passed,
                     total_voting_power |-> tally.total_power,
                     yes_voting_power |-> tally.yes_power,
                     no_voting_power |-> tally.no_power,
                     votes_cast |-> [id \in {ags[i].agent_id : i \in DOMAIN ags} |->
                                        votes[CHOOSE i \in DOMAIN ags : ags[i].agent_id = id]],
                     agents_slashed |-> << >>,
                     correct_outcome |-> (passed = is_objectively_good(p))]]

TallyInit ==
    /\ mechanism = TallyMechanism
    /\ \E n \in 1..MaxTally : agents \in TallyRosters(n)
    /\ agent_counter = Len(agents)
    /\ proposal_counter = 0
    /\ proposal = NoProposal
    /\ result = NoResult
    /\ round_agents = << >>
    /\ uncapped_powers = << >>
    /\ voting_powers = << >>
    /\ last_op = "init"
    /\ calls = 0
    /\ pc = "api"
    /\ NoEngine
    /\ OtherInit

\* voting_system.conduct_vote(agents, Proposal(id, quality)), once on a new roster
CallConductVoteFloat ==
    /\ pc = "api"
    /\ calls = 0
    /\ \E quality \in TallyQualities :
         \E votes \in PossibleVotes(agents, quality) :
             LET prop == Proposal(proposal_counter + 1, quality)
                 out == conduct_vote_float(mechanism, agents, prop, votes)
             IN  /\ proposal' = prop
                 /\ proposal_counter' = proposal_counter + 1
                 /\ round_agents' = agents
                 /\ uncapped_powers' = out.uncapped_powers
                 /\ voting_powers' = out.voting_powers
                 /\ result' = out.result
    /\ last_op' = "conduct_vote"
    /\ calls' = calls + 1
    /\ UNCHANGED <<mechanism, agents, agent_counter, pc, engineVars>>
    /\ UNCHANGED otherVars

TallyNext == CallConductVoteFloat

TallySpec == TallyInit /\ [][TallyNext]_vars

(***************************************************************************)
(* One agent slashed round after round, stake and penalty in floating      *)
(* point: calculate_slash_amount and Agent.apply_slashing                  *)
(***************************************************************************)
\* a * b and a / b on floats
float_mul(a, b) == float(a * b, FloatOne)
float_div(a, b) == float(a * FloatOne, b)

\* number of rounds one agent is followed through
MaxSlashes == 20

\* stakes the factory hands out, as floats: uniform(5, 10), the 1.0 of a sybil
\* agent, and 64.0 of uniform(50, 200)
SlashStakes == TallyStakes \cup {FloatOne, 64 * FloatOne}

\* MechanismGenerator.slashing_rates
all_slashing_rates == {0, 50, 100, 150, 200, 250, 300}

SlashMechanisms ==
    {GovernanceMechanism("weighted", "token_based", sl, 500, sr, 0, 1000) :
        sl \in {"linear", "exponential", "progressive"}, sr \in all_slashing_rates}

\* Agent.get_effective_stake
get_effective_stake_float(a) ==
    IF a.stake > a.amount_slashed THEN float(a.stake - a.amount_slashed, 1) ELSE 0

\* variant: the penalty doubles with each previous slash
progressive_multiplier_float_full(times_slashed) == float_add(FloatOne, times_slashed)

\* progressive slashing: progressive_multiplier = 1.0 + (times_slashed * 0.5)
progressive_multiplier_float(times_slashed) ==
    float_add(FloatOne, float_mul(times_slashed, FloatOne \div 2))

\* VotingSystem.calculate_slash_amount
calculate_slash_amount_float(m, a) ==
    LET slashing_rate == float(m.slashing_rate * FloatOne, Unit)
        base_slash == float_mul(get_effective_stake_float(a), slashing_rate)
    IN  CASE m.slashing_method = "linear" -> base_slash
          [] m.slashing_method = "exponential" ->
               float_mul(base_slash,
                         float_add(FloatOne, float_div(a.amount_slashed, a.original_stake)))
          [] m.slashing_method = "progressive" ->
               LET times_slashed ==
                       IF slashing_rate > 0
                       THEN float_div(a.amount_slashed,
                                      float_mul(slashing_rate, a.original_stake))
                       ELSE 0
               IN  float_mul(base_slash, progressive_multiplier_float(times_slashed))
          [] OTHER -> base_slash

\* Agent.apply_slashing
Agent_apply_slashing_float(a, slash_amount) ==
    LET s == float_add(a.amount_slashed, slash_amount)
    IN  [a EXCEPT !.amount_slashed = IF s > a.stake THEN a.stake ELSE s]

SlashInit ==
    /\ mechanism \in SlashMechanisms
    /\ agents \in {<<Agent(1, "honest", s, 500)>> : s \in SlashStakes}
    /\ agent_counter = 1
    /\ proposal_counter = 0
    /\ proposal = NoProposal
    /\ result = NoResult
    /\ round_agents = << >>
    /\ uncapped_powers = << >>
    /\ voting_powers = << >>
    /\ last_op = "init"
    /\ calls = 0
    /\ pc = "api"
    /\ NoEngine
    /\ OtherInit

SlashUnchanged ==
    UNCHANGED <<mechanism, agent_counter, proposal_counter, proposal, result,
                uncapped_powers, voting_powers, pc, engineVars, units, workers,
                generated_mechanisms, gen, returned>>

\* voting_system.calculate_slash_amount(agent)
CallCalculateSlashAmount ==
    /\ pc = "api"
    /\ last_op # "calculate_slash_amount"
    /\ ret' = [agent |-> agents[1],
               slash_amount |-> calculate_slash_amount_float(mechanism, agents[1])]
    /\ last_op' = "calculate_slash_amount"
    /\ UNCHANGED <<agents, round_agents, calls>>
    /\ SlashUnchanged

\* a round whose outcome is wrong and which the agent supported: what
\* VotingSystem.apply_slashing does to it
SlashedInRound ==
    /\ pc = "api"
    /\ calls < MaxSlashes
    /\ ~(mechanism.slashing_method = "none" \/ mechanism.slashing_rate = 0)
    /\ LET slash_amount == calculate_slash_amount_float(mechanism, agents[1])
       IN  /\ agents' = <<Agent_apply_slashing_float(agents[1], slash_amount)>>
           /\ ret' = [agent |-> agents[1], slash_amount |-> slash_amount]
    /\ round_agents' = agents
    /\ last_op' = "apply_slashing"
    /\ calls' = calls + 1
    /\ SlashUnchanged

SlashNext ==
    \/ CallCalculateSlashAmount
    \/ SlashedInRound

SlashSpec == SlashInit /\ [][SlashNext]_vars

(***************************************************************************)
(* MechanismGenerator.generate_mixed_with_real_world_classes and the       *)
(* pipeline's mapping of the results by mechanism (src/generator.py,       *)
(* src/pipeline.py)                                                        *)
(***************************************************************************)
\* MechanismGenerator.slashing_methods and slashing_rates, in list order
slashing_methods_list == <<"none", "linear", "exponential", "progressive">>
slashing_rates_list == <<0, 50, 100, 150, 200, 250, 300>>

\* the two nested loops over slashing_methods and slashing_rates, flattened
MethodByRate(vm, sm, ct) ==
    LET rates == Len(slashing_rates_list)
    IN  [k \in 1..(Len(slashing_methods_list) * rates) |->
            GovernanceMechanism(vm, sm, slashing_methods_list[((k - 1) \div rates) + 1], ct,
                                slashing_rates_list[((k - 1) % rates) + 1], 950, 1000)]

generate_real_world_mechanism_classes ==
    MethodByRate("weighted", "token_based", 510)
        \o [k \in DOMAIN slashing_rates_list |->
               GovernanceMechanism("simple_majority", "token_based", "linear", 500,
                                   slashing_rates_list[k], 950, 1000)]
        \o <<GovernanceMechanism("weighted", "token_based", "none", 500, 0, 950, 1000)>>
        \o MethodByRate("quadratic", "hybrid", 650)

\* num_mechanisms asked for: none, one, one less than the real-world classes,
\* just these, and up to MaxNumMechanisms more
MixedSizes ==
    LET real == Len(generate_real_world_mechanism_classes)
    IN  {0, 1, real - 1} \cup {real + k : k \in 0..MaxNumMechanisms}

\* mechanisms[:num_mechanisms], for num_mechanisms >= 0
slice_to(mechanisms, n) ==
    SubSeq(mechanisms, 1, IF n < Len(mechanisms) THEN n ELSE Len(mechanisms))

\* dict(results_list): one entry per key, a later pair replacing an earlier
\* one of an equal key; the results of a mechanism stand as its position
dict(results_list) ==
    [key \in {results_list[i][1] : i \in DOMAIN results_list} |->
        LET last == CHOOSE i \in DOMAIN results_list :
                        /\ mechanism_hash(results_list[i][1]) = mechanism_hash(key)
                        /\ mechanism_eq(results_list[i][1], key)
                        /\ \A j \in DOMAIN results_list :
                               (j > i) => ~mechanism_eq(results_list[j][1], key)
        IN  results_list[last][2]]

\* not inside generate_mixed_with_real_world_classes
NotInMixed == gen.pc # "loop" /\ "mixed" \notin DOMAIN gen

\* generator.generate_mixed_with_real_world_classes(num_mechanisms): up to the
\* loop of generate_unique_mechanisms(remaining), or to the return when
\* nothing remains to fill
CallGenerateMixed ==
    /\ pc = "generator"
    /\ NotInMixed
    /\ calls < MaxGenCalls
    /\ \E num_mechanisms \in MixedSizes :
         LET real_world_classes == generate_real_world_mechanism_classes
             remaining == Max(0, num_mechanisms - Len(real_world_classes))
         IN  IF remaining > 0
             THEN /\ gen' = [pc |-> "loop", num_mechanisms |-> remaining,
                             mechanisms |-> << >>, max_attempts |-> remaining * 10,
                             attempts |-> 0,
                             mixed |-> [num_mechanisms |-> num_mechanisms,
                                        mechanisms |-> real_world_classes]]
                  /\ ret' = NoResult
                  /\ last_op' = "generate_unique_mechanisms"
             ELSE /\ gen' = NoCall
                  /\ ret' = [num_mechanisms |-> num_mechanisms,
                             mechanisms |-> slice_to(real_world_classes, num_mechanisms)]
                  /\ last_op' = "generate_mixed_with_real_world_classes"
    /\ calls' = calls + 1
    /\ result' = NoResult
    /\ UNCHANGED <<generated_mechanisms, returned>>
    /\ UNCHANGED <<mechanism, agents, agent_counter, proposal_counter, proposal,
                   round_agents, uncapped_powers, voting_powers, pc, engineVars,
                   units, workers>>

\* generate_unique_mechanisms has returned: extend and return the slice
MixedReturns ==
    /\ pc = "generator"
    /\ gen.pc = "returned"
    /\ "mixed" \in DOMAIN gen
    /\ ret' = [num_mechanisms |-> gen.mixed.num_mechanisms,
               mechanisms |-> slice_to(gen.mixed.mechanisms \o gen.mechanisms,
                                       gen.mixed.num_mechanisms)]
    /\ gen' = NoCall
    /\ last_op' = "generate_mixed_with_real_world_classes"
    /\ UNCHANGED <<generated_mechanisms, returned, calls, result>>
    /\ UNCHANGED <<mechanism, agents, agent_counter, proposal_counter, proposal,
                   round_agents, uncapped_powers, voting_powers, pc, engineVars,
                   units, workers>>

\* run_pipeline, steps 2 and 3: one (mechanism, results) pair per mechanism
\* from pool.map, in order, and all_results = dict(results_list)
CollectResults ==
    /\ pc = "generator"
    /\ last_op = "generate_mixed_with_real_world_classes"
    /\ LET results_list == [i \in DOMAIN ret.mechanisms |-> <<ret.mechanisms[i], i>>]
       IN  result' = [all_results |-> dict(results_list)]
    /\ last_op' = "run_pipeline"
    /\ UNCHANGED <<generated_mechanisms, returned, calls, ret, gen>>
    /\ UNCHANGED <<mechanism, agents, agent_counter, proposal_counter, proposal,
                   round_agents, uncapped_powers, voting_powers, pc, engineVars,
                   units, workers>>

MixedNext ==
    \/ CallGenerateMixed
    \/ GenerateAttempt
    \/ GenerateReturns
    \/ MixedReturns
    \/ CollectResults

MixedSpec == GenInit /\ [][MixedNext]_vars

(***************************************************************************)
(* Properties                                                              *)
(***************************************************************************)
Voted == last_op = "conduct_vote"
SlashingEnabled == mechanism.slashing_method # "none" /\ mechanism.slashing_rate > 0
Slashed(id) == \E k \in DOMAIN result.agents_slashed : result.agents_slashed[k] = id
InInstance == pc \in {"instance", "vote"}

\* C1: after any sequence of conduct_vote rounds and Agent.apply_slashing calls
\* with non-negative amounts, every agent has amount_slashed <= stake and an
\* effective stake >= 0.
C1_SlashedWithinStake ==
    \A i \in DOMAIN agents :
        /\ agents[i].amount_slashed <= agents[i].stake
        /\ get_effective_stake(agents[i]) >= 0
        /\ agents[i].stake - agents[i].amount_slashed >= 0

\* a round slashed an agent and a direct call then reached the clamp
C1_Witness ==
    /\ calls = 2
    /\ last_op = "apply_slashing"
    /\ result # NoResult
    /\ Len(result.agents_slashed) > 0
    /\ \E i \in DOMAIN agents :
         /\ Slashed(agents[i].agent_id)
         /\ agents[i].amount_slashed = agents[i].stake

\* C2: within one instance amount_slashed never decreases, and between the end
\* of a round and the start of the next the roster is untouched.
C2_SlashingPermanent ==
    [][InInstance =>
          /\ Len(agents') = Len(agents)
          /\ \A i \in DOMAIN agents :
               /\ agents'[i].amount_slashed >= agents[i].amount_slashed
               /\ get_effective_stake(agents'[i]) <= get_effective_stake(agents[i])
          /\ (pc = "instance" => agents' = agents)]_vars

\* an agent slashed in round 1 enters round 2 slashed and is slashed again
C2_Witness ==
    /\ pc = "instance"
    /\ round_num = 2
    /\ Voted
    /\ \E i \in DOMAIN agents :
         /\ round_agents[i].amount_slashed > 0
         /\ agents[i].amount_slashed > round_agents[i].amount_slashed

\* C3: at the first round of every instance every agent is freshly built:
\* amount_slashed = 0, the stake untouched, the id never used before.
C3_FreshPopulation ==
    (InInstance /\ round_num = 0) =>
        \A i \in DOMAIN agents :
            /\ agents[i].amount_slashed = 0
            /\ agents[i].original_stake = agents[i].stake
            /\ agents[i].agent_id = agent_counter - Len(agents) + i
            /\ \A j \in DOMAIN round_agents :
                 instance > 0 => round_agents[j].agent_id < agents[i].agent_id

\* the second instance starts after the first one slashed an agent
C3_Witness ==
    /\ pc = "instance"
    /\ round_num = 0
    /\ instance = 1
    /\ result # NoResult
    /\ Len(result.agents_slashed) > 0
    /\ Len(agents) > 0
    /\ \A i \in DOMAIN agents : agents[i].amount_slashed = 0

\* C4: in a round with an incorrect outcome and slashing enabled, an agent is
\* slashed (listed once in agents_slashed, Agent.apply_slashing applied once)
\* iff (passed, bad proposal, voted YES) or (failed, good proposal, voted NO).
C4_SlashedIffSupportedWrongOutcome ==
    (Voted /\ ~result.correct_outcome /\ SlashingEnabled) =>
        \A i \in DOMAIN round_agents :
            LET before == round_agents[i]
                id == before.agent_id
                vote == result.votes_cast[id]
                good == result.proposal.quality >= 500
                supported == \/ (result.passed /\ ~good /\ vote)
                             \/ (~result.passed /\ good /\ ~vote)
                listed == Cardinality({k \in DOMAIN result.agents_slashed :
                                          result.agents_slashed[k] = id})
            IN  /\ supported => /\ listed = 1
                                /\ agents[i] = Agent_apply_slashing(before,
                                                   calculate_slash_amount(mechanism, before))
                /\ ~supported => /\ listed = 0
                                 /\ agents[i] = before

\* a wrong outcome with one agent slashed and another one spared
C4_Witness ==
    /\ Voted
    /\ ~result.correct_outcome
    /\ SlashingEnabled
    /\ Len(agents) = 2
    /\ Len(result.agents_slashed) = 1
    /\ \E i \in DOMAIN agents : agents[i].amount_slashed > round_agents[i].amount_slashed
    /\ \E i \in DOMAIN agents : /\ ~Slashed(agents[i].agent_id)
                                /\ agents[i] = round_agents[i]

\* C5: if the outcome is correct, or slashing_method is none, or slashing_rate
\* is 0, conduct_vote leaves every agent unchanged and agents_slashed empty.
C5_NoSlashingUnlessWrongAndEnabled ==
    (Voted /\ (result.correct_outcome \/ mechanism.slashing_method = "none"
                   \/ mechanism.slashing_rate = 0)) =>
        /\ agents = round_agents
        /\ result.agents_slashed = << >>

\* a wrong outcome that an agent supported, with method none and a positive rate
C5_Witness ==
    /\ Voted
    /\ ~result.correct_outcome
    /\ mechanism.slashing_method = "none"
    /\ mechanism.slashing_rate > 0
    /\ \E i \in DOMAIN agents :
         /\ result.votes_cast[agents[i].agent_id] = result.passed
         /\ get_effective_stake(agents[i]) > 0
    /\ agents = round_agents

\* C6: passed = (yes_power / total_power >= consensus_threshold) when
\* total_power > 0, passed = false when total_power = 0, and the degenerate
\* round is an ordinary VoteResult with correct_outcome = (false = good).
C6_ThresholdDecision ==
    Voted =>
        LET good == result.proposal.quality >= 500
        IN  /\ result.total_voting_power > 0 =>
                (result.passed <=>
                    result.yes_voting_power * Unit
                        >= mechanism.consensus_threshold * result.total_voting_power)
            /\ result.total_voting_power = 0 =>
                /\ ~result.passed
                /\ result.correct_outcome = (FALSE = good)
                /\ result.yes_voting_power = 0
                /\ result.no_voting_power = 0
            /\ result.correct_outcome = (result.passed = good)

\* a degenerate round of a non-empty roster on a good proposal
C6_Witness ==
    /\ Voted
    /\ Len(agents) > 0
    /\ result.total_voting_power = 0
    /\ ~result.passed
    /\ result.proposal.quality >= 500
    /\ ~result.correct_outcome

\* C7: if every agent votes the objectively correct way and total power is
\* > 0, then passed = is_objectively_good, the outcome is correct and no agent
\* is slashed.
C7_AllCorrectVotes ==
    (/\ Voted
     /\ result.total_voting_power > 0
     /\ \A i \in DOMAIN round_agents :
          result.votes_cast[round_agents[i].agent_id] = (result.proposal.quality >= 500)) =>
        /\ result.passed = (result.proposal.quality >= 500)
        /\ result.correct_outcome
        /\ result.agents_slashed = << >>
        /\ agents = round_agents

\* a whale and an honest agent both vote NO on a proposal of quality 0.3
C7_Witness ==
    /\ Voted
    /\ result.proposal.quality = 300
    /\ Len(round_agents) = 2
    /\ \E i \in DOMAIN round_agents : round_agents[i].agent_type = "whale"
    /\ \E i \in DOMAIN round_agents : round_agents[i].agent_type = "honest"
    /\ \A i \in DOMAIN round_agents : ~result.votes_cast[round_agents[i].agent_id]
    /\ result.total_voting_power > 0
    /\ ~result.passed
    /\ result.correct_outcome
    /\ result.agents_slashed = << >>

\* C8: a capped power is <= total uncapped power x max_voting_power, never
\* above the uncapped power of the agent, never negative, and the capped
\* powers sum to at most the total uncapped power.
C8_CapBounds ==
    Voted =>
        /\ Len(voting_powers) = Len(uncapped_powers)
        /\ \A i \in DOMAIN voting_powers :
             /\ voting_powers[i] * Unit
                    <= SumSeq(uncapped_powers) * mechanism.max_voting_power
             /\ voting_powers[i] <= uncapped_powers[i]
             /\ voting_powers[i] >= 0
        /\ SumSeq(voting_powers) <= SumSeq(uncapped_powers)

\* one agent was capped, another was not
C8_Witness ==
    /\ Voted
    /\ mechanism.max_voting_power < Unit
    /\ \E i \in DOMAIN voting_powers : voting_powers[i] < uncapped_powers[i]
    /\ \E i \in DOMAIN voting_powers : /\ voting_powers[i] = uncapped_powers[i]
                                       /\ voting_powers[i] > 0

\* the roster without its sybil agents, and what conduct_vote makes of it
NonSybil(ags) == SelectSeq(ags, LAMBDA a : a.agent_type # "sybil")
HonestAlone ==
    LET honest == NonSybil(round_agents)
        votes == [i \in DOMAIN honest |-> result.votes_cast[honest[i].agent_id]]
        powers == [i \in DOMAIN honest |-> calculate_voting_power(mechanism, honest[i])]
    IN  conduct_vote(mechanism, honest, result.proposal, votes, powers).result

\* C9: with sybil_resistance = 1.0 every sybil agent has voting power 0 and the
\* yes/no/total tally and the decision equal those of the non-sybil agents
\* alone with the same votes.
C9_SybilsFullyDiscounted ==
    (Voted /\ mechanism.sybil_resistance = Unit) =>
        /\ \A i \in DOMAIN round_agents :
             round_agents[i].agent_type = "sybil" =>
                 /\ uncapped_powers[i] = 0
                 /\ voting_powers[i] = 0
        /\ result.yes_voting_power = HonestAlone.yes_voting_power
        /\ result.no_voting_power = HonestAlone.no_voting_power
        /\ result.total_voting_power = HonestAlone.total_voting_power
        /\ result.passed = HonestAlone.passed

\* a sybil and an honest agent vote against each other on a good proposal and
\* the honest vote alone decides
C9_Witness ==
    /\ Voted
    /\ mechanism.sybil_resistance = Unit
    /\ Len(round_agents) = 2
    /\ round_agents[1].agent_type = "sybil"
    /\ round_agents[2].agent_type = "honest"
    /\ ~result.votes_cast[round_agents[1].agent_id]
    /\ result.votes_cast[round_agents[2].agent_id]
    /\ voting_powers[1] = 0
    /\ result.yes_voting_power = result.total_voting_power
    /\ result.total_voting_power > 0
    /\ result.passed

\* C10: run_attack_scenario returns total_votes = instances x rounds,
\* 0 <= correct_outcomes <= total_votes and success_rate =
\* correct_outcomes / total_votes, 0 when total_votes is 0.
C10_ScenarioTotals ==
    pc = "done" =>
        /\ attack_result.total_votes = instances * rounds
        /\ attack_result.correct_outcomes >= 0
        /\ attack_result.correct_outcomes <= attack_result.total_votes
        /\ attack_result.total_votes = 0 => attack_result.success_rate = 0
        /\ attack_result.total_votes > 0 =>
             /\ attack_result.success_rate * attack_result.total_votes
                    <= attack_result.correct_outcomes * Unit
             /\ attack_result.correct_outcomes * Unit
                    < (attack_result.success_rate + 1) * attack_result.total_votes
        /\ attack_result.attack_type = attack_type
        /\ attack_result.mechanism = mechanism

\* a scenario of 2 instances of 2 rounds with both correct and wrong outcomes
C10_Witness ==
    /\ pc = "done"
    /\ instances = 2
    /\ rounds = 2
    /\ attack_result.total_votes = 4
    /\ attack_result.correct_outcomes > 0
    /\ attack_result.correct_outcomes < 4

\* the votes an agent can cast on a proposal of this quality, over all draws
VoteOutcomes(a, quality) == {vote_on_proposal(a, quality, u) : u \in Draws}
AskedFor(type) == last_op = "vote_on_proposal" /\ ret.agent.agent_type = type

\* C11: an honest agent with threshold x, for every x in [0.4, 0.8], votes
\* YES whatever the random draw on every proposal of quality >= x, the
\* boundary quality = x included.
C11_HonestYesAtOrAboveThreshold ==
    (AskedFor("honest") /\ ret.quality >= ret.agent.honesty_threshold)
        => ret.vote = TRUE

\* C12: colluding and whale agents follow one policy.  With correct =
\* (quality >= 0.5): for 0.4 < quality < 0.6 the vote is always the opposite
\* of correct; for 0.35 < quality <= 0.4 or 0.6 <= quality < 0.65 both the
\* opposite and the correct vote can be cast; for every other quality, 0.35
\* and 0.65 themselves included, the vote is always correct.
C12_CollusionWhalePolicy ==
    (AskedFor("collusion") \/ AskedFor("whale")) =>
        LET q == ret.quality
            correct == q >= 500
            twin == [ret.agent EXCEPT !.agent_type =
                        IF ret.agent.agent_type = "whale" THEN "collusion" ELSE "whale"]
        IN  /\ vote_on_proposal(twin, q, ret.draw) = ret.vote
            /\ (400 < q /\ q < 600) => ret.vote = ~correct
            /\ ((350 < q /\ q <= 400) \/ (600 <= q /\ q < 650))
                  => VoteOutcomes(ret.agent, q) = {TRUE, FALSE}
            /\ (q <= 350 \/ q >= 650) => ret.vote = correct

\* a colluder in the upper fuzzy band casting the wrong vote
C12_Witness ==
    /\ AskedFor("collusion")
    /\ ret.quality = 620
    /\ ret.vote = FALSE

\* C13: a systematically biased agent's vote equals (quality < 0.5) for every
\* quality, whatever the draw, and so is always the opposite of
\* is_objectively_good: NO at quality 0.5 exactly.
C13_SystematicBiasAlwaysWrong ==
    AskedFor("systematic_bias") =>
        /\ ret.vote = (ret.quality < 500)
        /\ ret.vote = ~is_objectively_good(Proposal(1, ret.quality))
        /\ VoteOutcomes(ret.agent, ret.quality) = {ret.quality < 500}

C13_Witness ==
    /\ AskedFor("systematic_bias")
    /\ ret.quality = 500
    /\ ret.draw = 999
    /\ ret.vote = FALSE

\* C14: calculate_voting_power takes as base power 1.0 under equal_weight,
\* the effective stake under token_based and reputation_based, and
\* (effective stake + 1.0) / 2.0 under hybrid; it then returns 1.0 under
\* simple_majority whatever the base, the base unchanged under weighted and
\* its square root under quadratic; the returned power is never negative.
C14_VotingPowerTable ==
    Voted => \A i \in DOMAIN round_agents :
        LET a == round_agents[i]
            e == Max(0, a.stake - a.amount_slashed)
            sm == mechanism.stake_method
            vm == mechanism.voting_method
            base == IF sm = "equal_weight" THEN Scale
                    ELSE IF sm \in {"token_based", "reputation_based"} THEN e
                    ELSE (e + Scale) \div 2
            p == calculate_voting_power(mechanism, a)
        IN  /\ p >= 0
            /\ vm = "simple_majority" => p = Scale
            /\ vm = "weighted" => p = base
            /\ vm = "quadratic" => p * p <= base * Scale /\ base * Scale < (p + 1) * (p + 1)
            /\ a.agent_type # "sybil" => uncapped_powers[i] = p
            /\ uncapped_powers[i] \in {0, p}

\* simple_majority: two agents of different stake, one of them slashed
\* before, enter the tally with power 1.0 each
C14_Witness ==
    /\ Voted
    /\ mechanism.voting_method = "simple_majority"
    /\ mechanism.stake_method = "token_based"
    /\ Len(round_agents) = 2
    /\ round_agents[1].amount_slashed > 0
    /\ get_effective_stake(round_agents[1]) # get_effective_stake(round_agents[2])
    /\ uncapped_powers = <<Scale, Scale>>

\* C15: under exponential slashing with a rate > 0, an agent that is slashed
\* twice gets a strictly larger multiplier 1 + amount_slashed / original_stake
\* at its second slash than at its first, whenever the first slash left
\* nonzero damage; the second penalty is the base penalty times that multiplier.
C15_ExponentialMultiplierGrows ==
    (Voted /\ mechanism.slashing_method = "exponential" /\ mechanism.slashing_rate > 0) =>
        \A i \in DOMAIN round_agents :
            LET a == round_agents[i]
                first == [a EXCEPT !.amount_slashed = 0]
                base_slash == (get_effective_stake(a) * mechanism.slashing_rate) \div Unit
            IN  (Slashed(a.agent_id) /\ a.amount_slashed > 0) =>
                    /\ slash_multiplier(first) = Unit
                    /\ slash_multiplier(a) > slash_multiplier(first)
                    /\ agents[i].amount_slashed - a.amount_slashed
                          = (base_slash * slash_multiplier(a)) \div Unit

\* second round of an instance: an agent slashed in the first round at rate
\* 0.05 is slashed again
C15_Witness ==
    /\ Voted
    /\ mechanism.slashing_method = "exponential"
    /\ mechanism.slashing_rate = 50
    /\ round_num = 2
    /\ \E i \in DOMAIN round_agents :
         /\ round_agents[i].amount_slashed > 0
         /\ Slashed(round_agents[i].agent_id)
         /\ slash_multiplier(round_agents[i]) = Unit + 50

\* C16: an unrecognised slashing method is an invalid configuration: when a
\* round with an incorrect outcome reaches the slashing engine with such a
\* method and a rate > 0, an invalid-configuration error is raised at once
\* and no agent is slashed.
C16_UnknownSlashingMethodRaises ==
    (Voted /\ mechanism.slashing_rate > 0
           /\ mechanism.slashing_method \notin {"none", "linear", "exponential", "progressive"})
        => \/ IsValueError(result)
           \/ result.correct_outcome /\ agents = round_agents

\* C17: conduct_vote on a non-empty agent list with an unrecognised voting
\* method or stake method (an unknown stake method under simple_majority
\* too), or with an agent of unrecognised type, fails with ValueError: no
\* VoteResult is produced and every agent's stake and amount_slashed are
\* what they were before the call.
C17_InvalidConfigurationRaises ==
    (Voted /\ Len(round_agents) > 0
           /\ \/ mechanism.voting_method \notin {"simple_majority", "weighted", "quadratic"}
              \/ mechanism.stake_method
                    \notin {"equal_weight", "token_based", "reputation_based", "hybrid"}
              \/ \E i \in DOMAIN round_agents : round_agents[i].agent_type \notin AgentTypes)
        => /\ IsValueError(result)
           /\ Len(agents) = Len(round_agents)
           /\ \A i \in DOMAIN agents :
                /\ agents[i].stake = round_agents[i].stake
                /\ agents[i].amount_slashed = round_agents[i].amount_slashed

\* an unknown stake method under simple_majority with slashing switched on:
\* the call raises and an agent slashed beforehand keeps its amount_slashed
C17_Witness ==
    /\ Voted
    /\ mechanism.voting_method = "simple_majority"
    /\ mechanism.stake_method = "proof_of_work"
    /\ mechanism.slashing_method = "linear"
    /\ mechanism.slashing_rate > 0
    /\ Len(agents) = 2
    /\ \A i \in DOMAIN agents : agents[i].agent_type \in AgentTypes
    /\ agents[1].amount_slashed > 0
    /\ result = ValueError("Unknown stake method")

\* C18: agent_id is unique within a run: over all the populations one
\* SimulationEngine builds no two agents share an agent_id.  Every id in use
\* is one the factory counter has passed, the counter never goes back, each
\* new population takes ids beyond the counter, and so the ids within any
\* population handed to conduct_vote are pairwise distinct.
C18_AgentIdsUnique ==
    [][/\ \A i, j \in DOMAIN agents :
            i # j => agents[i].agent_id # agents[j].agent_id
       /\ \A i \in DOMAIN agents : agents[i].agent_id \in 1..agent_counter
       /\ \A i \in DOMAIN round_agents : round_agents[i].agent_id \in 1..agent_counter
       /\ agent_counter' >= agent_counter
       /\ (pc = "scenario" /\ pc' = "instance") =>
            /\ \A i \in DOMAIN agents' : agents'[i].agent_id > agent_counter
            /\ \A i, j \in DOMAIN agents' :
                  i # j => agents'[i].agent_id # agents'[j].agent_id]_vars

\* the population of the second instance of a bias scenario: ids 4, 5, 6
C18_Witness ==
    /\ pc = "instance"
    /\ last_op = "generate_scenario"
    /\ attack_type = "bias"
    /\ instance = 1
    /\ agent_counter = 2 * Len(agents)
    /\ \A i \in DOMAIN agents : agents[i].agent_id = Len(agents) + i

PopulationSize(attack) == Len(ScenarioTypes(attack))

RECURSIVE AllReturned(_)
AllReturned(k) == IF k = 0 THEN << >> ELSE AllReturned(k - 1) \o returned[k].mechanisms

\* C20: generate_unique_mechanisms never returns two configurations with the
\* same seven field values, neither within one call nor across successive
\* calls on the same MechanismGenerator, and a call returns at most
\* num_mechanisms configurations.
C20_GeneratedMechanismsUnique ==
    LET all == AllReturned(Len(returned))
    IN  /\ \A i, j \in DOMAIN all :
             i # j =>
                \/ all[i].voting_method # all[j].voting_method
                \/ all[i].stake_method # all[j].stake_method
                \/ all[i].slashing_method # all[j].slashing_method
                \/ all[i].consensus_threshold # all[j].consensus_threshold
                \/ all[i].slashing_rate # all[j].slashing_rate
                \/ all[i].sybil_resistance # all[j].sybil_resistance
                \/ all[i].max_voting_power # all[j].max_voting_power
        /\ \A k \in DOMAIN returned :
             Len(returned[k].mechanisms) <= returned[k].num_mechanisms

\* three calls: the first two returned two mechanisms each, the second after
\* drawing one the first had returned; the third, asked for two more, used up
\* its attempts and returned none
C20_Witness ==
    /\ Len(returned) = 3
    /\ Len(returned[1].mechanisms) = 2
    /\ Len(returned[2].mechanisms) = 2
    /\ returned[3].num_mechanisms = 2
    /\ returned[3].mechanisms = << >>
    /\ gen.attempts = gen.max_attempts

\* C21: after capping, no agent's power is more than max_voting_power times
\* the total voting power actually tallied in the round (the sum of the
\* capped powers).
C21_CapRelativeToTalliedTotal ==
    Voted => \A i \in DOMAIN voting_powers :
        voting_powers[i] * Unit <= mechanism.max_voting_power * result.total_voting_power

\* C21, amended: the cap is relative to the total before capping.  No
\* agent's power after capping is more than max_voting_power times the sum
\* of the uncapped powers, and a capped agent sits exactly on that limit; the
\* total tallied in the round is the sum of the capped powers, which is
\* smaller than the uncapped total as soon as one agent is capped.
C21_CapRelativeToUncappedTotal ==
    Voted =>
        LET total_uncapped == SumSeq(uncapped_powers)
            limit == (total_uncapped * mechanism.max_voting_power) \div Unit
        IN  /\ result.total_voting_power = SumSeq(voting_powers)
            /\ \A i \in DOMAIN voting_powers :
                 /\ voting_powers[i] <= limit \/ total_uncapped = 0
                 /\ voting_powers[i] # uncapped_powers[i] => voting_powers[i] = limit
            /\ (\E i \in DOMAIN voting_powers : voting_powers[i] # uncapped_powers[i])
                  => result.total_voting_power < total_uncapped

\* max_voting_power 0.5, two agents: the larger one is capped to half of the
\* uncapped total and holds more than half of the total that is tallied
C21_Witness ==
    /\ Voted
    /\ mechanism.max_voting_power = 500
    /\ Len(voting_powers) = 2
    /\ voting_powers[1] < uncapped_powers[1]
    /\ voting_powers[2] = uncapped_powers[2]
    /\ voting_powers[2] > 0
    /\ voting_powers[1] * Unit > mechanism.max_voting_power * result.total_voting_power

\* C22: within one conduct_vote round all votes are cast and all voting
\* powers are computed, capped and tallied from the agents' effective stakes
\* as they were at the start of the round; slashing comes after the decision,
\* so a penalty of round N leaves round N's tally alone and first lowers the
\* agent's voting power in round N+1.
C22_RoundUsesStartOfRoundStakes ==
    [][/\ (pc = "instance" /\ pc' = "vote") => agents' = agents
       /\ (pc = "vote" /\ pc' = "instance") =>
            LET yes == {i \in DOMAIN agents : result'.votes_cast[agents[i].agent_id]}
                power(i) == calculate_voting_power(mechanism, agents[i])
                capped == apply_max_voting_power_cap(mechanism, uncapped_powers')
            IN  /\ \A i \in DOMAIN agents :
                     /\ \E u \in Draws :
                          result'.votes_cast[agents[i].agent_id]
                              = vote_on_proposal(agents[i], proposal.quality, u)
                     /\ uncapped_powers'[i] \in {0, power(i)}
                     /\ agents[i].agent_type # "sybil" => uncapped_powers'[i] = power(i)
                     /\ agents'[i].amount_slashed > agents[i].amount_slashed =>
                          /\ calculate_voting_power(mechanism, agents'[i]) < power(i)
                          /\ agents'[i].amount_slashed - agents[i].amount_slashed
                                = calculate_slash_amount(mechanism, agents[i])
                /\ voting_powers' = capped
                /\ result'.total_voting_power = SumSeq(capped)
                /\ result'.yes_voting_power
                      = SumSeq([i \in DOMAIN agents |-> IF i \in yes THEN capped[i] ELSE 0])
                /\ result'.passed
                      = decide_passed(mechanism, result'.yes_voting_power,
                                      result'.total_voting_power)]_vars

\* round 2 of an instance: an agent slashed in round 1 votes with the power
\* of what round 1 left it, and is slashed again after the tally
C22_Witness ==
    /\ Voted
    /\ pc = "instance"
    /\ round_num = 2
    /\ \E i \in DOMAIN round_agents :
         /\ round_agents[i].agent_type # "sybil"
         /\ round_agents[i].amount_slashed > 0
         /\ uncapped_powers[i] = round_agents[i].stake - round_agents[i].amount_slashed
         /\ agents[i].amount_slashed > round_agents[i].amount_slashed
         /\ result.total_voting_power = SumSeq(voting_powers)

\* the float sum of a sequence, added in order from 0.0
RECURSIVE FloatSum(_, _)
FloatSum(s, acc) == IF s = << >> THEN acc ELSE FloatSum(Tail(s), float_add(acc, Head(s)))

\* the powers of the agents of the round whose vote in votes_cast is `side`
RECURSIVE SidePowers(_, _)
SidePowers(i, side) ==
    IF i > Len(round_agents) THEN << >>
    ELSE (IF result.votes_cast[round_agents[i].agent_id] = side
          THEN <<voting_powers[i]>> ELSE << >>) \o SidePowers(i + 1, side)

OneVotePerAgent ==
    /\ DOMAIN result.votes_cast = {round_agents[i].agent_id : i \in DOMAIN round_agents}
    /\ Cardinality(DOMAIN result.votes_cast) = Len(round_agents)

\* C23 as stated: in every VoteResult yes_voting_power + no_voting_power ==
\* total_voting_power, total_voting_power is the sum of the capped powers of
\* all agents of the round, and votes_cast holds one vote per agent.
C23_YesPlusNoEqualsTotal ==
    Voted =>
        /\ float_add(result.yes_voting_power, result.no_voting_power)
               = result.total_voting_power
        /\ result.total_voting_power = FloatSum(voting_powers, 0)
        /\ OneVotePerAgent

\* C23: in every VoteResult total_voting_power is the sum of the capped powers
\* of all agents of the round, yes_voting_power the sum of the capped powers of
\* the agents that voted YES and no_voting_power of those that voted NO, each
\* added up in roster order in floating point; votes_cast holds one vote per
\* agent; and yes_voting_power + no_voting_power equals total_voting_power up
\* to the rounding of the additions, within one unit in the last place of the
\* total per agent.
C23_YesPlusNoEqualsTotalUpToRounding ==
    Voted =>
        LET yes_plus_no == float_add(result.yes_voting_power, result.no_voting_power)
            total == result.total_voting_power
            ulp == Quantum(total, 1, 1)
        IN  /\ total = FloatSum(voting_powers, 0)
            /\ result.yes_voting_power = FloatSum(SidePowers(1, TRUE), 0)
            /\ result.no_voting_power = FloatSum(SidePowers(1, FALSE), 0)
            /\ OneVotePerAgent
            /\ yes_plus_no - total <= Len(round_agents) * ulp
            /\ total - yes_plus_no <= Len(round_agents) * ulp

\* three agents, votes on both sides, and the sum of the two sides is not the total
C23_Witness ==
    /\ Voted
    /\ Len(round_agents) = 3
    /\ result.yes_voting_power > 0
    /\ result.no_voting_power > 0
    /\ float_add(result.yes_voting_power, result.no_voting_power)
           # result.total_voting_power
    /\ result.yes_voting_power + result.no_voting_power = SumSeq(voting_powers)

\* C24: whether an agent is slashed does not depend on its voting power.  An
\* agent whose power in the round was 0 (the sybil discount applied, or
\* nothing left of its stake) or was cut by the cap, and whose vote supported
\* the wrong outcome, is listed in agents_slashed and pays the penalty
\* calculate_slash_amount gives for its stake; and in a round whose total
\* voting power is 0, on an objectively good proposal with slashing enabled,
\* every agent that voted NO is slashed.
C24_SlashingIndependentOfVotingPower ==
    (Voted /\ SlashingEnabled) =>
        \A i \in DOMAIN round_agents :
            LET before == round_agents[i]
                vote == result.votes_cast[before.agent_id]
                powerless == voting_powers[i] = 0
                capped == voting_powers[i] < uncapped_powers[i]
                penalised ==
                    /\ Slashed(before.agent_id)
                    /\ agents[i] = Agent_apply_slashing(before,
                                       calculate_slash_amount(mechanism, before))
            IN  /\ ( /\ powerless \/ capped
                     /\ ~result.correct_outcome
                     /\ SupportedWrongOutcome(proposal, result.passed, vote) ) => penalised
                /\ ( /\ result.total_voting_power = 0
                     /\ is_objectively_good(proposal)
                     /\ ~vote ) => penalised

\* a round of two agents without any voting power on a good proposal: a sybil
\* agent whose power the discount took voted NO and lost stake
C24_Witness ==
    /\ Voted
    /\ SlashingEnabled
    /\ Len(round_agents) = 2
    /\ result.total_voting_power = 0
    /\ is_objectively_good(proposal)
    /\ ~result.passed
    /\ \E i \in DOMAIN round_agents :
         /\ round_agents[i].agent_type = "sybil"
         /\ calculate_voting_power(mechanism, round_agents[i]) > 0
         /\ voting_powers[i] = 0
         /\ ~result.votes_cast[round_agents[i].agent_id]
         /\ Slashed(round_agents[i].agent_id)
         /\ agents[i].amount_slashed > round_agents[i].amount_slashed

PenaltyComputed == last_op \in {"calculate_slash_amount", "apply_slashing"}

\* C25 as stated: for every slashing method and every slashing_rate in
\* [0, 0.3] the penalty calculate_slash_amount computes for an agent with
\* effective stake e > 0 is strictly less than e; over any sequence of rounds
\* the clamp in Agent.apply_slashing never takes effect and an agent created
\* with positive stake always keeps effective stake > 0.
C25_StakeStaysPositive ==
    /\ PenaltyComputed =>
          /\ get_effective_stake_float(ret.agent) > 0 =>
                 ret.slash_amount < get_effective_stake_float(ret.agent)
          /\ float_add(ret.agent.amount_slashed, ret.slash_amount) <= ret.agent.stake
    /\ \A i \in DOMAIN agents : get_effective_stake_float(agents[i]) > 0

\* C25: for every slashing method and every slashing_rate in [0, 0.3] the
\* penalty calculate_slash_amount computes for an agent with effective stake
\* e > 0 is strictly less than e, and amount_slashed + penalty never exceeds
\* stake, so the clamp in Agent.apply_slashing never cuts anything.  The
\* effective stake stays >= 0; it becomes 0 only when the float sum
\* amount_slashed + penalty rounds up to stake, that is when what the penalty
\* leaves of the stake is at most half the spacing of the floats at that sum.
C25_PenaltyBelowStakeZeroOnlyByRounding ==
    /\ PenaltyComputed =>
          LET a == ret.agent
              e == get_effective_stake_float(a)
              exact_sum == a.amount_slashed + ret.slash_amount
          IN  /\ e > 0 => ret.slash_amount < e
              /\ e = 0 => ret.slash_amount = 0
              /\ float_add(a.amount_slashed, ret.slash_amount) <= a.stake
              /\ (last_op = "apply_slashing" /\ e > 0
                     /\ get_effective_stake_float(agents[1]) = 0) =>
                    /\ exact_sum < a.stake
                    /\ 2 * (a.stake - exact_sum) <= Quantum(exact_sum, 1, 1)
    /\ \A i \in DOMAIN agents :
          /\ agents[i].amount_slashed <= agents[i].stake
          /\ get_effective_stake_float(agents[i]) >= 0

\* an agent slashed several times, each penalty below what it had left, has
\* nothing left
C25_Witness ==
    /\ last_op = "apply_slashing"
    /\ calls >= 3
    /\ agents[1].stake > 0
    /\ get_effective_stake_float(agents[1]) = 0
    /\ get_effective_stake_float(ret.agent) > 0
    /\ ret.slash_amount < get_effective_stake_float(ret.agent)
    /\ ret.agent.amount_slashed + ret.slash_amount < ret.agent.stake

RealWorld == generate_real_world_mechanism_classes
Bittensor(m) == /\ m.voting_method = "weighted" /\ m.stake_method = "token_based"
                /\ m.consensus_threshold = 510
Gensyn(m) == /\ m.voting_method = "simple_majority" /\ m.stake_method = "token_based"
             /\ m.slashing_method = "linear" /\ m.consensus_threshold = 500
Ocean(m) == /\ m.voting_method = "weighted" /\ m.stake_method = "token_based"
            /\ m.slashing_method = "none" /\ m.consensus_threshold = 500
            /\ m.slashing_rate = 0
SingularityNET(m) == /\ m.voting_method = "quadratic" /\ m.stake_method = "hybrid"
                     /\ m.consensus_threshold = 650
CountOf(Class(_)) == Cardinality({i \in DOMAIN RealWorld : Class(RealWorld[i])})

\* C26: generate_mixed_with_real_world_classes(n), n >= 0, returns at most n
\* pairwise distinct configurations; its first min(n, 64) entries are the
\* first of the 64 real-world class configurations (28 Bittensor, 7 Gensyn,
\* 1 Ocean, 28 SingularityNET, in this order); no randomly generated fill-in
\* equals a real-world configuration; and the dict the pipeline builds from
\* the (mechanism, results) pairs has one entry per mechanism of the list.
C26_MixedListDistinctRealWorldFirst ==
    /\ ret # NoResult =>
          LET ms == ret.mechanisms
              n == ret.num_mechanisms
              k == IF n < Len(RealWorld) THEN n ELSE Len(RealWorld)
          IN  /\ Len(RealWorld) = 64
              /\ CountOf(Bittensor) = 28
              /\ CountOf(Gensyn) = 7
              /\ CountOf(Ocean) = 1
              /\ CountOf(SingularityNET) = 28
              /\ Len(ms) <= n
              /\ \A i, j \in DOMAIN ms : i < j => ~mechanism_eq(ms[i], ms[j])
              /\ Len(ms) >= k
              /\ \A i \in 1..k : ms[i] = RealWorld[i]
              /\ \A i \in DOMAIN ms : i > Len(RealWorld) =>
                    \A j \in DOMAIN RealWorld : ~mechanism_eq(ms[i], RealWorld[j])
    /\ last_op = "run_pipeline" =>
          /\ Cardinality(DOMAIN result.all_results) = Len(ret.mechanisms)
          /\ \A i \in DOMAIN ret.mechanisms :
                /\ ret.mechanisms[i] \in DOMAIN result.all_results
                /\ result.all_results[ret.mechanisms[i]] = i

\* 66 mechanisms asked for and returned, two of them random fill-ins, and the
\* pipeline's dict holds 66 entries
C26_Witness ==
    /\ last_op = "run_pipeline"
    /\ ret.num_mechanisms = Len(RealWorld) + 2
    /\ Len(ret.mechanisms) = Len(RealWorld) + 2
    /\ ret.mechanisms[Len(RealWorld) + 1] \in generated_mechanisms
    /\ ret.mechanisms[Len(RealWorld) + 2] \in generated_mechanisms
    /\ Cardinality(DOMAIN result.all_results) = Len(RealWorld) + 2

====
